---------------------------- MODULE Spec2Model ----------------------------
(***************************************************************************)
(* NetMonitor Pro (emojisrDEV/Network-Statistics): the reachability prober *)
(* (NetworkMonitor.ping_host), the tiered host metrics collection          *)
(* (get_host_stats, NetworkMonitor.get_system_stats, BackupMonitor) and    *)
(* the device store written by the subnet sweep                            *)
(* (discover_network_devices, update_or_add_device), the collection        *)
(* scheduler (monitoring_loop, start_monitoring, stop_monitoring) and the  *)
(* node registry (raspberry_pi_nodes, raspberry_pi_heartbeat).             *)
(*                                                                         *)
(* Conventions.  An optional value (Python None or a value) is a set with  *)
(* at most one element.  Percentages are integers in tenths of a percent   *)
(* (50.0 % is 500), latencies are integers in the unit the code rounds to. *)
(* An exception that leaves a function is the field  raised  of what the   *)
(* function yields.                                                        *)
(***************************************************************************)
EXTENDS Integers, Sequences, FiniteSets, TLC

VARIABLES
    pingResp,      \* /api/network-tools/ping: the request being answered and its response
    hostResp,      \* /api/host/stats: the environment of the last call and its response
    backupStats,   \* BackupMonitor.run_monitoring_cycle: the last record it produced
    devices,       \* table devices: a set of rows
    loops,         \* the threads running monitoring_loop: position in the sweep, locals
    discovered,    \* history: the addresses a completed update_or_add_device call wrote
    now,           \* CURRENT_TIMESTAMP of the store, in whole ticks
    lan,           \* the subnet the host's interface is on, once an enumeration returned it
    monitoring_active,  \* NetworkMonitor.monitoring_active
    monitoring_thread,  \* NetworkMonitor.monitoring_thread: None or a thread
    threads,       \* the threads that run monitoring_loop: position in the cycle, locals
    callers,       \* the callers of start_monitoring and stop_monitoring
    host_stats,    \* table host_stats: a set of rows
    network_stats, \* table network_stats: a set of rows
    nodes,         \* table raspberry_pi_nodes: a set of rows
    nodeResp,      \* /api/raspberry-pi: the last request and its response
    statsResp,     \* /api/network-stats: the request being answered and its response
    agent,         \* NetMonitorAgent.run: its position, its locals, the heartbeats so far
    boots          \* history: the times at which NetworkMonitor() was constructed

\* the scheduler and the two tables only it writes
schedVars == <<monitoring_active, monitoring_thread, threads, callers, host_stats, network_stats>>
\* the node registry
nodeVars == <<nodes, nodeResp>>

vars == <<boots, agent, pingResp, hostResp, statsResp, backupStats, devices, loops, discovered, now, lan,
          schedVars, nodeVars>>

---------------------------------------------------------------------------
(* Bounds of the model *)

\* the largest latency (parsed from the ping output, or measured) that is enumerated
MaxLatency == 2
\* the largest number of lines of ping output that is enumerated
MaxLines == 2

---------------------------------------------------------------------------
(* Optional values *)

None == {}
Some(x) == {x}

Latencies == 1..MaxLatency
OptLatency == {None} \cup {Some(n) : n \in Latencies}

---------------------------------------------------------------------------
(* ping_host: src/app.py 182-262 *)

\* A line of the ping utility's output, by what line 202-204 does with it:
\* "plain" has no "time=", "bad" has a "time=" whose number float() rejects,
\* "time" has a "time=<ms> ms" that parses to ms.
PlainLine == [kind |-> "plain", ms |-> None]
BadLine == [kind |-> "bad", ms |-> None]
TimeLine(n) == [kind |-> "time", ms |-> Some(n)]
Lines == {PlainLine, BadLine} \cup {TimeLine(n) : n \in Latencies}

SeqsUpTo(S, n) == UNION {[1..k -> S] : k \in 0..n}
Outputs == SeqsUpTo(Lines, MaxLines)

\* What each strategy's system call can do.
\*   ping: exit code 0 | exit code not 0 | subprocess.run raises (no ping binary,
\*         bad argument) | subprocess.TimeoutExpired after 10 s
\*   tcp:  connect_ex returns 0 | returns an errno (refused) | returns an errno
\*         after the 5 s timeout | socket()/connect_ex raises (socket.gaierror ...)
\*   raw:  sendto on the raw socket succeeds | socket()/sendto raises
\*   dns:  gethostbyname returns | raises | blocks: the call takes no timeout
\*         (245), so it lasts as long as the resolver of the system lets it
\*   http: urlopen returns a response | raises HTTPError (4xx/5xx status) |
\*         raises URLError (no connection) | raises after the 5 s timeout
PingKinds == {"exit0", "nonzero", "raise", "timeout"}
TcpKinds == {"connected", "refused", "timeout", "raise"}
RawKinds == {"sent", "raise"}
DnsKinds == {"resolved", "raise", "hang"}
HttpKinds == {"response", "httperror", "urlerror", "timeout"}

\* The targets of the model: dotted IPv4 literals and a host name.  The empty
\* string is the missing target of the ping tool.
IpTargets == {"192.168.1.1"}
NameTargets == {"printer.lan"}
Targets == IpTargets \cup NameTargets
Counts == {1, 4}

\* The environment of one ping_host call.  socket.gethostbyname of a dotted IPv4
\* literal returns it without a lookup, so for those targets dns is "resolved".
Envs(literal) ==
    { [ping |-> p, out |-> o, tcp |-> t, raw |-> r, dns |-> d, http |-> h, elapsed |-> e] :
        p \in PingKinds, o \in Outputs, t \in TcpKinds, r \in RawKinds,
        d \in IF literal THEN {"resolved"} ELSE DnsKinds,
        h \in HttpKinds, e \in Latencies }

\* What a strategy yields: it returns (success, latency), or falls through to the
\* code after its try block, or lets an exception escape, or stays in a call
\* that nothing ends.
Return(s, l, tr) == [st |-> "return", success |-> s, latency |-> l, tried |-> tr]
FallThrough(tr) == [st |-> "next", success |-> FALSE, latency |-> None, tried |-> tr]
Escapes(tr) == [st |-> "raise", success |-> FALSE, latency |-> None, tried |-> tr]
Blocks(tr) == [st |-> "hang", success |-> FALSE, latency |-> None, tried |-> tr]

\* lines 199-208: the first line with "time=" whose number parses gives the
\* latency; a line whose number does not parse is passed over (except: pass).
RECURSIVE ParseLatency(_)
ParseLatency(lines) ==
    IF lines = <<>> THEN None
    ELSE IF Head(lines).kind = "time" THEN Head(lines).ms
    ELSE ParseLatency(Tail(lines))

StandardPing_NonzeroFallsThrough(env) ==
    CASE env.ping = "exit0" -> Return(TRUE, ParseLatency(env.out), <<"ping">>)
      [] OTHER -> FallThrough(<<"ping">>)

\* Method 1, lines 185-212
StandardPing(env) ==
    CASE env.ping = "exit0" -> Return(TRUE, ParseLatency(env.out), <<"ping">>)
      [] env.ping = "nonzero" -> Return(FALSE, None, <<"ping">>)
      [] OTHER -> FallThrough(<<"ping">>)     \* except Exception: print

SocketPing_ConnectedNoLatency(env) ==
    CASE env.tcp = "connected" -> Return(TRUE, None, <<"tcp">>)
      [] env.tcp \in {"refused", "timeout"} ->
            IF env.raw = "sent" THEN Return(TRUE, Some(env.elapsed), <<"tcp", "raw">>)
            ELSE FallThrough(<<"tcp", "raw">>)
      [] OTHER -> FallThrough(<<"tcp">>)

SocketPing_RefusedEndsChain(env) ==
    CASE env.tcp = "connected" -> Return(TRUE, Some(env.elapsed), <<"tcp">>)
      [] env.tcp \in {"refused", "timeout"} -> Return(FALSE, None, <<"tcp">>)
      [] OTHER -> FallThrough(<<"tcp">>)

\* Method 2, lines 215-239: the TCP connect to port 80 and, in the else branch of
\* "result == 0", the raw ICMP socket
SocketPing(env) ==
    CASE env.tcp = "connected" -> Return(TRUE, Some(env.elapsed), <<"tcp">>)
      [] env.tcp \in {"refused", "timeout"} ->
            IF env.raw = "sent" THEN Return(TRUE, Some(env.elapsed), <<"tcp", "raw">>)
            ELSE FallThrough(<<"tcp", "raw">>)     \* except: pass
      [] OTHER -> FallThrough(<<"tcp">>)           \* except Exception: print

DnsLookup_ResolvedFallsThrough(env) ==
    IF env.dns = "hang" THEN Blocks(<<"dns">>) ELSE FallThrough(<<"dns">>)

DnsLookup_Uncaught(env) ==
    CASE env.dns = "resolved" -> Return(TRUE, Some(env.elapsed), <<"dns">>)
      [] env.dns = "hang" -> Blocks(<<"dns">>)
      [] OTHER -> Escapes(<<"dns">>)

\* Method 3, lines 242-249
DnsLookup(env) ==
    CASE env.dns = "resolved" -> Return(TRUE, Some(env.elapsed), <<"dns">>)
      [] env.dns = "hang" -> Blocks(<<"dns">>)     \* line 245 does not return
      [] OTHER -> FallThrough(<<"dns">>)           \* except Exception: print

\* Method 4, lines 252-260: urlopen raises HTTPError for a 4xx/5xx status
HttpRequest(env) ==
    IF env.http = "response" THEN Return(TRUE, Some(env.elapsed), <<"http">>)
    ELSE FallThrough(<<"http">>)                   \* except: pass

ChainExhausted_Truthy(tr) ==
    [raised |-> FALSE, hung |-> FALSE, success |-> TRUE, latency |-> None, tried |-> tr]

\* line 262
ChainExhausted(tr) ==
    [raised |-> FALSE, hung |-> FALSE, success |-> FALSE, latency |-> None, tried |-> tr]

\* What ping_host hands to its caller once a strategy has returned or raised;
\* hung when the strategy stays in its call and the caller is handed nothing
Leave(m, before) ==
    [raised |-> (m.st = "raise"), hung |-> (m.st = "hang"), success |-> m.success,
     latency |-> m.latency, tried |-> before \o m.tried]

\* lines 182-262.  target and count only build the command line (186-189).
ping_host(target, count, env) ==
    LET m1 == StandardPing(env) IN
    IF m1.st # "next" THEN Leave(m1, <<>>) ELSE
    LET m2 == SocketPing(env) IN
    IF m2.st # "next" THEN Leave(m2, m1.tried) ELSE
    LET m3 == DnsLookup(env) IN
    IF m3.st # "next" THEN Leave(m3, m1.tried \o m2.tried) ELSE
    LET m4 == HttpRequest(env) IN
    IF m4.st # "next" THEN Leave(m4, m1.tried \o m2.tried \o m3.tried)
    ELSE ChainExhausted(m1.tried \o m2.tried \o m3.tried \o m4.tried)

---------------------------------------------------------------------------
(* The ad-hoc ping endpoint: src/app.py 750-767 *)

NoEnv == [ping |-> "raise", out |-> <<>>, tcp |-> "raise", raw |-> "raise",
          dns |-> "raise", http |-> "urlerror", elapsed |-> 1]
NoProbe == [raised |-> FALSE, hung |-> FALSE, success |-> FALSE, latency |-> None,
            tried |-> <<>>]

\* no request is being answered
NoPing == [busy |-> FALSE, target |-> "", count |-> 1, env |-> NoEnv, status |-> 0,
           result |-> NoProbe]

ping_tool_StoresResult(target, count, env) ==
    /\ ~pingResp.busy
    /\ LET r == IF target = "" THEN NoProbe ELSE ping_host(target, count, env) IN
       /\ pingResp' = [busy |-> TRUE, target |-> target, count |-> count, env |-> env,
                       status |-> IF target = "" THEN 400
                                  ELSE IF r.hung THEN 0 ELSE IF r.raised THEN 500 ELSE 200,
                       result |-> r]
       /\ devices' = IF r.success
                     THEN {[d EXCEPT !.status = "online", !.latency = r.latency] : d \in devices}
                     ELSE devices
    /\ UNCHANGED <<boots, agent, statsResp, hostResp, backupStats, loops, discovered, now, lan, schedVars,
                   nodeVars>>

\* POST /api/network-tools/ping with {target, count}: 400 when the target is
\* missing or empty (757-758), else the prober's result (760-767); an exception
\* leaving the view is Flask's 500.  While the prober does not return there is
\* no response: status 0.
ping_tool(target, count, env) ==
    /\ ~pingResp.busy
    /\ pingResp' =
          IF target = ""
          THEN [busy |-> TRUE, target |-> target, count |-> count, env |-> env,
                status |-> 400, result |-> NoProbe]
          ELSE LET r == ping_host(target, count, env) IN
               [busy |-> TRUE, target |-> target, count |-> count, env |-> env,
                status |-> IF r.hung THEN 0 ELSE IF r.raised THEN 500 ELSE 200,
                result |-> r]
    /\ UNCHANGED <<boots, agent, statsResp, hostResp, backupStats, devices, loops, discovered, now, lan, schedVars, nodeVars>>

\* the response is sent (762-767), or the client has given up waiting for it,
\* and the endpoint is free again
PingDone ==
    /\ pingResp.busy
    /\ pingResp' = NoPing
    /\ UNCHANGED <<boots, agent, statsResp, hostResp, backupStats, devices, loops, discovered, now, lan, schedVars, nodeVars>>

LiteralEnvs == Envs(TRUE)
NameEnvs == Envs(FALSE)
\* the environments a request for this target can meet
EnvsOf(target) ==
    IF target = "" THEN {NoEnv} ELSE IF target \in IpTargets THEN LiteralEnvs ELSE NameEnvs

NextProbe ==
    \/ /\ ~pingResp.busy
       /\ \E target \in Targets \cup {""}, count \in Counts :
             \E env \in EnvsOf(target) : ping_tool(target, count, env)
    \/ PingDone

---------------------------------------------------------------------------
(* Host metrics, primary tier: NetworkMonitor.get_system_stats, src/app.py 130-180 *)

\* the largest amount (of memory in kB, of disk blocks, of CPU jiffies) enumerated
MaxAmount == 3
Amounts == 0..MaxAmount
OptAmount == {None} \cup {Some(a) : a \in Amounts}

\* percentages psutil reports, in tenths: psutil keeps them in 0.0 .. 100.0
PsutilPercents == {0, 337, 1000}

Eth0 == [name |-> "eth0", ip |-> "192.168.1.10", netmask |-> "255.255.255.0"]
\* the interface lists of the model, as lines 145-156 build them
InterfaceLists == {<<>>, <<Eth0>>}

\* psutil as one get_system_stats call finds it: some call of lines 134-161
\* raises (fails), or they return these values
PsutilEnvs ==
    { [fails |-> f, cpu |-> c, mem |-> m, disk |-> d, uptime |-> u, ifaces |-> i] :
        f \in BOOLEAN, c \in PsutilPercents, m \in PsutilPercents, d \in {0, 1000},
        u \in {0, 12}, i \in InterfaceLists }

\* a collection whose failure reaches the caller
get_system_stats_Raises(ps) ==
    [raised |-> ps.fails, cpu_usage |-> ps.cpu, memory_usage |-> ps.mem,
     disk_usage |-> ps.disk, uptime_hours |-> ps.uptime, interfaces |-> ps.ifaces]

\* lines 132-180: the whole body is one try; its handler returns the all-zero
\* record, so nothing is raised to the caller
get_system_stats(ps) ==
    IF ~ps.fails
    THEN [raised |-> FALSE, cpu_usage |-> ps.cpu, memory_usage |-> ps.mem,
          disk_usage |-> ps.disk, uptime_hours |-> ps.uptime, interfaces |-> ps.ifaces]
    ELSE [raised |-> FALSE, cpu_usage |-> 0, memory_usage |-> 0, disk_usage |-> 0,
          uptime_hours |-> 0, interfaces |-> <<>>]

---------------------------------------------------------------------------
(* Host metrics, backup tier: BackupMonitor, src/backup_monitor.py *)

\* Python's round(x, 0) of the fraction n / d (d > 0): to the nearest integer,
\* a tie to the even one
RoundHalfEven(n, d) ==
    LET q == (2 * n + d) \div (2 * d)
    IN  IF (2 * n + d) % (2 * d) = 0 /\ q % 2 = 1 THEN q - 1 ELSE q

\* used / total * 100 rounded to one decimal, in tenths of a percent
Percent10(used, total) == RoundHalfEven(used * 1000, total)

RECURSIVE SumSeq(_)
SumSeq(s) == IF s = <<>> THEN 0 ELSE Head(s) + SumSeq(Tail(s))

Max(a, b) == IF a >= b THEN a ELSE b
Min(a, b) == IF a <= b THEN a ELSE b

\* The operating system as one BackupMonitor cycle finds it.
\*   platform  platform.system() is "Linux", or something else
\*   stat      the numbers after "cpu" on the first line of /proc/stat; None: no file
\*   top       "raise": top fails or times out; "nocpu": no line with Cpu(s)/%Cpu;
\*             else the number before "us", in tenths
\*   meminfo   None: /proc/meminfo cannot be read or a line does not parse; else
\*             the kB values of MemTotal, MemAvailable, MemFree (None: key absent)
\*   free      None: free fails or prints fewer than two lines; else total, used
\*   statvfs   None: os.statvfs raises; else f_blocks, f_bavail (f_frsize cancels)
\*   df        None: df fails or prints fewer than two lines; else the Use% column
\*   uptime    hours of uptime, None: /proc/uptime or uptime fails
\*   ipaddr    "ok": "ip addr show" runs; "raise": it fails or times out
\*   ipout     the lines "ip addr show" prints when it runs
\*   ifconfig  None: ifconfig fails; else the interfaces its output parses to
\* A line of the "ip addr show" output: whether it starts with blanks, and its
\* words.  An interface header is "<n>: <name>: <flags> ..." at the margin; the
\* lines of its addresses follow, indented.
IfNames == {"lo", "eth0", "wlan0"}
HeaderLine(name) ==
    [indent |-> FALSE,
     words |-> <<"2:", CASE name = "lo" -> "lo:" [] name = "eth0" -> "eth0:"
                         [] OTHER -> "wlan0:", "<UP>">>]
LinkLine == [indent |-> TRUE, words |-> <<"link/ether", "aa:bb:cc:dd:ee:ff">>]
InetLine(name) ==
    [indent |-> TRUE,
     words |-> <<"inet", CASE name = "lo" -> "127.0.0.1/8" [] name = "eth0" -> "192.168.1.10/24"
                           [] OTHER -> "10.0.0.5/8", "scope">>]
Inet6Line == [indent |-> TRUE, words |-> <<"inet6", "fe80::1/64", "scope">>]
\* the address lines an interface can have
AddressLines(name) ==
    {<<>>, <<LinkLine>>, <<InetLine(name)>>, <<LinkLine, InetLine(name)>>,
     <<LinkLine, InetLine(name), Inet6Line>>}
IfBlocks == UNION {{<<HeaderLine(n)>> \o a : a \in AddressLines(n)} : n \in IfNames}
\* the largest number of interfaces in an output
MaxBlocks == 2
RECURSIVE BlockSeqs(_)
BlockSeqs(k) ==
    IF k = 0 THEN {<<>>}
    ELSE BlockSeqs(k - 1) \cup {b \o rest : b \in IfBlocks, rest \in BlockSeqs(k - 1)}
\* the well-formed outputs: the headers of distinct interfaces, each followed
\* by its address lines
IpAddrOutputs ==
    {o \in BlockSeqs(MaxBlocks) :
        \A i, j \in 1..Len(o) : (i # j /\ ~o[i].indent) => o[i] # o[j]}
\* the output on a host with loopback and one LAN interface
TypicalIpAddr ==
    <<HeaderLine("lo"), LinkLine, InetLine("lo"), HeaderLine("eth0"), LinkLine,
      InetLine("eth0"), Inet6Line>>

CpuStats == {<<0, 0, 0, 0>>, <<1, 0, 0, 1>>, <<MaxAmount, 0, 0, 1>>, <<0, 0, 0, 2>>, <<1, 0, 0>>}
OptCpuStat == {None} \cup {Some(c) : c \in CpuStats}
TopResults == {[kind |-> "raise", us |-> 0], [kind |-> "nocpu", us |-> 0]}
                 \cup {[kind |-> "cpu", us |-> v] : v \in {0, 59, 1000}}
MemInfos == {[total |-> t, available |-> a, free |-> f] :
                t \in OptAmount, a \in OptAmount, f \in {None, Some(1)}}
OptMemInfo == {None} \cup {Some(m) : m \in MemInfos}
\* free reports used = total - free - buffers - cache, so used <= total
FreeResults == {None} \cup {Some([total |-> t, used |-> u]) : t \in Amounts, u \in Amounts}
StatVfs == {None} \cup {Some([blocks |-> b, bavail |-> a]) : b \in Amounts, a \in Amounts}
DfResults == {None} \cup {Some(pct) : pct \in {0, 450, 1000}}

LinuxEnvs ==
    { [platform |-> "Linux", stat |-> c, top |-> [kind |-> "raise", us |-> 0],
       meminfo |-> m, free |-> None, statvfs |-> d, df |-> None, uptime |-> u,
       ipaddr |-> i, ipout |-> TypicalIpAddr, ifconfig |-> g] :
        c \in OptCpuStat, m \in OptMemInfo, i \in {"ok", "raise"},
        g \in {None} \cup {Some(l) : l \in InterfaceLists},
        d \in {v \in StatVfs : v = None \/ \A x \in v : x.bavail <= x.blocks},
        u \in {None, Some(12)} }
OtherEnvs ==
    { [platform |-> "Darwin", stat |-> None, top |-> t, meminfo |-> None, free |-> f,
       statvfs |-> None, df |-> d, uptime |-> u, ipaddr |-> "raise", ipout |-> <<>>,
       ifconfig |-> None] :
        t \in TopResults,
        f \in {v \in FreeResults : v = None \/ \A x \in v : x.used <= x.total},
        d \in DfResults, u \in {None, Some(12)} }
OsEnvs == LinuxEnvs \cup OtherEnvs

\* the value of an optional that is known to be present
The(opt) == CHOOSE x \in opt : TRUE

\* lines 62-92.  Linux: 100 * (1 - idle / total) from /proc/stat, clamped to
\* 0..100 (line 73); a missing file, fewer than four numbers (IndexError) or a
\* zero total (ZeroDivisionError) give 0.  Otherwise the number top prints.
get_cpu_usage_basic(os) ==
    IF os.platform = "Linux"
    THEN IF os.stat = None THEN 0
         ELSE LET cpu_times == The(os.stat) IN
              IF Len(cpu_times) < 4 \/ SumSeq(cpu_times) = 0 THEN 0
              ELSE Max(0, Min(1000, 1000 - Percent10(cpu_times[4], SumSeq(cpu_times))))
    ELSE IF os.top.kind = "cpu" THEN os.top.us ELSE 0

\* dict.get(key, default) on an optional entry
Get(opt, default) == IF opt = None THEN default ELSE The(opt)

\* lines 105-108 (and app.py 617-620): MemAvailable, else MemFree, else 0
MemUsedOf(m) == Get(m.total, 0) - Get(m.available, Get(m.free, 0))

\* lines 94-132: the percent field of what it returns
get_memory_usage_basic(os) ==
    IF os.platform = "Linux"
    THEN IF os.meminfo = None THEN 0
         ELSE LET m == The(os.meminfo) IN
              IF Get(m.total, 0) > 0 THEN Percent10(MemUsedOf(m), Get(m.total, 0)) ELSE 0
    ELSE IF os.free = None THEN 0
         ELSE LET f == The(os.free) IN
              IF f.total > 0 THEN Percent10(f.used, f.total) ELSE 0

\* lines 134-168: the percent field of what it returns
get_disk_usage_basic(os) ==
    IF os.platform = "Linux"
    THEN IF os.statvfs = None THEN 0
         ELSE LET v == The(os.statvfs) IN
              IF v.blocks > 0 THEN Percent10(v.blocks - v.bavail, v.blocks) ELSE 0
    ELSE IF os.df = None THEN 0 ELSE The(os.df)

\* lines 236-263, in hours as line 297 rounds it
get_system_uptime_basic(os) == Get(os.uptime, 0)

Fallback_eth0 == [name |-> "eth0", ip |-> "127.0.0.1", netmask |-> "255.0.0.0"]

\* line 182: line.strip() takes the leading blanks away
Strip(line) == [line EXCEPT !.indent = FALSE]
\* line 187: parts[1].rstrip(':')
RStripColon(w) ==
    CASE w = "lo:" -> "lo" [] w = "eth0:" -> "eth0" [] w = "wlan0:" -> "wlan0" [] OTHER -> w
\* line 193: parts[1].split('/')[0]
BeforeSlash(w) ==
    CASE w = "127.0.0.1/8" -> "127.0.0.1" [] w = "192.168.1.10/24" -> "192.168.1.10"
      [] w = "10.0.0.5/8" -> "10.0.0.5" [] w = "fe80::1/64" -> "fe80::1" [] OTHER -> w
\* line 190: 'inet ' in line
HasInet(line) == \E i \in 1..(Len(line.words) - 1) : line.words[i] = "inet"

\* lines 179-199: the loop over the lines of the "ip addr show" output.  The
\* test for a leading blank (183) is made on the stripped line (182).
RECURSIVE IpAddrLoop(_, _, _)
IpAddrLoop(lines, current_interface, interfaces) ==
    IF lines = <<>> THEN interfaces
    ELSE LET line == Strip(Head(lines)) IN
         IF line.words # <<>> /\ ~line.indent
         THEN IF Len(line.words) >= 2 /\ RStripColon(line.words[2]) # "lo"
              THEN IpAddrLoop(Tail(lines), Some(RStripColon(line.words[2])), interfaces)
              ELSE IpAddrLoop(Tail(lines), current_interface, interfaces)
         ELSE IF HasInet(line) /\ current_interface # None
         THEN IpAddrLoop(Tail(lines), None,
                         Append(interfaces, [name |-> The(current_interface),
                                             ip |-> BeforeSlash(line.words[2]),
                                             netmask |-> "255.255.255.0"]))
         ELSE IpAddrLoop(Tail(lines), current_interface, interfaces)

\* lines 170-234.  Linux: the loop over the "ip addr show" output (177-199);
\* when ip raises, the ifconfig output is parsed (202-224); when that raises
\* too, the fallback entry (228-232).  Other platforms: the empty list.
get_network_interfaces_basic(os) ==
    IF os.platform # "Linux" THEN <<>>
    ELSE IF os.ipaddr = "ok" THEN IpAddrLoop(os.ipout, None, <<>>)
    ELSE IF os.ifconfig # None THEN The(os.ifconfig)
    ELSE <<Fallback_eth0>>

\* lines 265-317: the keys of the record that get_host_stats reads
collect_system_stats(os) ==
    [cpu_usage |-> get_cpu_usage_basic(os),
     memory_percent |-> get_memory_usage_basic(os),
     disk_percent |-> get_disk_usage_basic(os),
     uptime_hours |-> get_system_uptime_basic(os),
     network_interfaces |-> get_network_interfaces_basic(os)]

\* the store of the backup monitor as one call finds it: writable or not
BackupDbStates == {"ok", "error"}

\* a store whose exception reaches the caller
store_backup_data_Uncaught(stats, db) == [raised |-> db # "ok", stored |-> db = "ok"]

\* lines 319-356: the INSERT and the JSON file, inside one try whose handler
\* prints the error
store_backup_data(stats, db) == [raised |-> FALSE, stored |-> db = "ok"]

\* lines 391-395: collect, store, return what was collected
run_monitoring_cycle(os, db) ==
    LET stats == collect_system_stats(os)
        st == store_backup_data(stats, db)
    IN  [raised |-> st.raised, stored |-> st.stored, stats |-> stats]

---------------------------------------------------------------------------
(* GET /api/host/stats: get_host_stats, src/app.py 566-654 *)

Snapshot(c, m, d, u, i, src) ==
    [raised |-> FALSE, cpuUsage |-> c, memoryUsage |-> m, diskUsage |-> d, uptime |-> u,
     networkInterfaces |-> i, source |-> src]

Failsafe_ReadErrorGivesMinimal(os) ==
    IF os.meminfo = None \/ os.statvfs = None
    THEN Snapshot(0, 0, 0, 0, <<>>, "minimal")
    ELSE Snapshot(250, 500, 500, 1, <<Fallback_eth0>>, "failsafe")

\* lines 601-642: cpu 25.0, memory and disk from /proc/meminfo and statvfs when
\* they can be read and the total is positive, else 50.0
Failsafe(os) ==
    LET memory_usage ==
            IF os.platform = "Linux" /\ os.meminfo # None
                  /\ Get(The(os.meminfo).total, 0) > 0
            THEN Percent10(MemUsedOf(The(os.meminfo)), Get(The(os.meminfo).total, 0))
            ELSE 500
        disk_usage ==
            IF os.statvfs # None /\ The(os.statvfs).blocks > 0
            THEN Percent10(The(os.statvfs).blocks - The(os.statvfs).bavail,
                           The(os.statvfs).blocks)
            ELSE 500
    IN  Snapshot(250, memory_usage, disk_usage, 1, <<Fallback_eth0>>, "failsafe")

\* lines 647-654
Minimal == Snapshot(0, 0, 0, 0, <<>>, "minimal")

\* The environment of one call: psutil, whether importing and constructing
\* BackupMonitor raises (585-586: its constructor opens backup_monitor.db),
\* whether the failsafe block raises, and the operating system.
\* lines 569-654
get_host_stats(env) ==
    LET stats == get_system_stats(env.ps) IN
    IF ~stats.raised
    THEN Snapshot(stats.cpu_usage, stats.memory_usage, stats.disk_usage,
                  stats.uptime_hours, stats.interfaces, "primary")
    ELSE IF env.backup = "ok"
         /\ ~run_monitoring_cycle(env.os, env.db).raised
    THEN LET backup_stats == run_monitoring_cycle(env.os, env.db).stats IN
         Snapshot(backup_stats.cpu_usage, backup_stats.memory_percent,
                  backup_stats.disk_percent, backup_stats.uptime_hours,
                  backup_stats.network_interfaces, "backup")
    ELSE IF env.failsafe = "ok" THEN Failsafe(env.os)
    ELSE Minimal


\* the operating systems enumerated for a call of the endpoint
ApiOsEnvs ==
    { os \in OsEnvs :
        /\ os.uptime # None
        /\ os.platform = "Linux" =>
              /\ os.stat = Some(<<1, 0, 0, 1>>)
              /\ os.ipaddr = "ok" /\ os.ifconfig = None
              /\ os.statvfs \in {None, Some([blocks |-> 2, bavail |-> 1])}
              /\ os.meminfo \in {None,
                                 Some([total |-> Some(2), available |-> Some(1), free |-> None]),
                                 Some([total |-> Some(1), available |-> Some(2), free |-> None])}
        /\ os.platform # "Linux" =>
              /\ os.top = [kind |-> "cpu", us |-> 59]
              /\ os.free = None
              /\ os.df \in {None, Some(450)} }

HostEnvs ==
    { [ps |-> p, backup |-> b, db |-> d, failsafe |-> f, os |-> o] :
        p \in PsutilEnvs, b \in {"ok", "raise"}, d \in BackupDbStates,
        f \in {"ok", "raise"}, o \in ApiOsEnvs }

NoHostEnv == CHOOSE e \in HostEnvs : TRUE
NoHost == [busy |-> FALSE, env |-> NoHostEnv, resp |-> Minimal]

\* GET /api/host/stats is answered
host_stats_request(env) ==
    /\ ~hostResp.busy
    /\ hostResp' = [busy |-> TRUE, env |-> env, resp |-> get_host_stats(env)]
    /\ UNCHANGED <<boots, agent, statsResp, pingResp, backupStats, devices, loops, discovered, now, lan, schedVars, nodeVars>>

\* the response is sent and the endpoint is free again
HostDone ==
    /\ hostResp.busy
    /\ hostResp' = NoHost
    /\ UNCHANGED <<boots, agent, statsResp, pingResp, backupStats, devices, loops, discovered, now, lan, schedVars, nodeVars>>

\* lines 600-654 on their own: what the endpoint answers once the handler of
\* line 597 is entered, the primary and the backup tier having raised
FailsafeTier(env) == IF env.failsafe = "ok" THEN Failsafe(env.os) ELSE Minimal

\* the operating systems enumerated for the failsafe block: every state of
\* /proc/meminfo and of statvfs on Linux, and a system that is not Linux
FailsafeOsEnvs ==
    {os \in LinuxEnvs : /\ os.stat = None /\ os.ipaddr = "raise" /\ os.ifconfig = None
                        /\ os.uptime = None}
    \cup {os \in OtherEnvs : /\ os.top.kind = "raise" /\ os.free = None /\ os.df = None
                             /\ os.uptime = None}
FailsafeEnvs ==
    {[ps |-> NoHostEnv.ps, backup |-> "raise", db |-> NoHostEnv.db, failsafe |-> f, os |-> o] :
        f \in {"ok", "raise"}, o \in FailsafeOsEnvs}

\* the handler of line 597 runs and the endpoint answers
failsafe_tier(env) ==
    /\ ~hostResp.busy
    /\ hostResp' = [busy |-> TRUE, env |-> env, resp |-> FailsafeTier(env)]
    /\ UNCHANGED <<boots, agent, statsResp, pingResp, backupStats, devices, loops, discovered, now, lan,
                   schedVars, nodeVars>>

NextFailsafe ==
    \/ /\ ~hostResp.busy
       /\ \E env \in FailsafeEnvs : failsafe_tier(env)
    \/ HostDone

NoOs == CHOOSE o \in ApiOsEnvs : TRUE
NoBackup == [busy |-> FALSE, os |-> NoOs, stats |-> collect_system_stats(NoOs),
             raised |-> FALSE, stored |-> FALSE]

\* backup_monitor.py 408-412: one cycle of the stand-alone backup monitor
backup_cycle(os, db) ==
    /\ ~backupStats.busy
    /\ LET cycle == run_monitoring_cycle(os, db) IN
       backupStats' = [busy |-> TRUE, os |-> os, stats |-> cycle.stats,
                       raised |-> cycle.raised, stored |-> cycle.stored]
    /\ UNCHANGED <<boots, agent, statsResp, pingResp, hostResp, devices, loops, discovered, now, lan, schedVars, nodeVars>>

\* backup_monitor.py 420: the cycle's record is dropped at the next iteration
backup_sleep ==
    /\ backupStats.busy
    /\ backupStats' = NoBackup
    /\ UNCHANGED <<boots, agent, statsResp, pingResp, hostResp, devices, loops, discovered, now, lan, schedVars, nodeVars>>

NextCollect ==
    \/ /\ ~hostResp.busy
       /\ \E env \in HostEnvs : host_stats_request(env)
    \/ HostDone

NextBackup ==
    \/ /\ ~backupStats.busy
       /\ \E os \in OsEnvs, db \in BackupDbStates : backup_cycle(os, db)
    \/ backup_sleep

\* a Linux host on which every source is readable and "ip addr show" runs,
\* with each of the well-formed outputs
IpAddrEnvs ==
    {[platform |-> "Linux", stat |-> Some(<<1, 0, 0, 1>>), top |-> [kind |-> "raise", us |-> 0],
      meminfo |-> Some([total |-> Some(2), available |-> Some(1), free |-> None]),
      free |-> None, statvfs |-> Some([blocks |-> 2, bavail |-> 1]), df |-> None,
      uptime |-> Some(12), ipaddr |-> "ok", ipout |-> o, ifconfig |-> None] :
        o \in IpAddrOutputs}

\* the cycles of the backup monitor on that host
NextIpAddr ==
    \/ /\ ~backupStats.busy
       /\ \E os \in IpAddrEnvs, db \in BackupDbStates : backup_cycle(os, db)
    \/ backup_sleep

---------------------------------------------------------------------------
(* The device store and the subnet sweep: src/app.py 31-128, 264-322 *)

\* the largest value of the store's clock that is enumerated
MaxClock == 1

\* An IPv4 address is its first three octets and its last one:
\* f"{subnet}.{last_octet}" (283), split('.')[-1] (310), endswith('.1') (312).
Addr(net, host) == [net |-> net, host |-> host]

\* a device name: a fixed text, or f"Gateway {n}" / f"Device {n}" (310, 313)
Name(text, n) == [text |-> text, n |-> n]

\* lines 115-119 with line 45: the rows add_sample_data inserts
SampleDevices ==
    { [id |-> 1, name |-> Name("Main Router", None), ip |-> Addr("192.168.1", 1),
       mac |-> Some("00:11:22:33:44:55"), device_type |-> "Router",
       status |-> "online", latency |-> Some(152), last_seen |-> 0],
      [id |-> 2, name |-> Name("Network Switch", None), ip |-> Addr("192.168.1", 2),
       mac |-> Some("00:11:22:33:44:56"), device_type |-> "Switch",
       status |-> "online", latency |-> Some(85), last_seen |-> 0],
      [id |-> 3, name |-> Name("WiFi Access Point", None), ip |-> Addr("192.168.1", 3),
       mac |-> Some("00:11:22:33:44:57"), device_type |-> "Access Point",
       status |-> "warning", latency |-> Some(251), last_seen |-> 0] }

\* line 281
common_ips == <<1, 254, 100, 101, 102>>

\* psutil.net_if_addrs() as a sweep finds it: the IPv4 addresses of the
\* interfaces, or None when the call raises
Loopback == Addr("127.0.0", 1)
IfAddrs == {None, Some(<<Loopback>>), Some(<<Loopback, Addr("192.168.1", 10)>>),
            Some(<<Addr("192.168.1", 10), Addr("192.168.1", 11)>>),
            Some(<<Addr("10.0.0", 5)>>)}

\* line 273: not addr.address.startswith('127.')
IsLoopback(a) == a.net = "127.0.0"

LocalNets_KeepsLoopback(addrs) == {addrs[i].net : i \in 1..Len(addrs)}

\* lines 271-277 and the set() of line 280
LocalNets(addrs) == {addrs[i].net : i \in {j \in 1..Len(addrs) : ~IsLoopback(addrs[j])}}

\* lines 280-283: the targets of one subnet, in the order they are probed
SubnetTargets(subnet) == [i \in 1..Len(common_ips) |-> Addr(subnet, common_ips[i])]

\* the orders in which the for loop of line 280 can walk a set of subnets
RECURSIVE SweepOrders(_)
SweepOrders(nets) ==
    IF nets = {} THEN {<<>>}
    ELSE UNION {{SubnetTargets(n) \o rest : rest \in SweepOrders(nets \ {n})} : n \in nets}

\* The network of the model: the last octets of the hosts that exist on a
\* swept subnet.  The probe of any other address meets a ping that exits non-zero.
LiveHosts == {1, 254, 100}
\* on the subnet 10.0.0 only the two gateway addresses exist
GatewayHosts == {1, 254}
Live(ip) == IF ip.net = "10.0.0" THEN ip.host \in GatewayHosts ELSE ip.host \in LiveHosts

\* the environments that a probe of the sweep meets: at most one line of ping
\* output, one measured latency
SweepEnvs ==
    {env \in LiteralEnvs :
        /\ env.elapsed = 1
        /\ Len(env.out) <= 1
        /\ \A i \in 1..Len(env.out) : env.out[i].ms \subseteq {1}}

Outcome(r) == [raised |-> r.raised, success |-> r.success, latency |-> r.latency]

\* line 284: what ping_host(target_ip, 1) can return, for a host that exists
\* and for one that does not
LiveResults == {Outcome(ping_host("live", 1, env)) : env \in SweepEnvs}
DeadResults == {Outcome(ping_host("dead", 1, env)) :
                   env \in {e \in SweepEnvs : e.ping = "nonzero"}}
PingResults(ip) == IF Live(ip) THEN LiveResults ELSE DeadResults

\* line 298-299: SELECT id FROM devices WHERE ip_address = ?; fetchone()
SelectDevice_NeverFound(rows, ip) == {}

SelectDevice(rows, ip) == {r \in rows : r.ip = ip}

UpdateDevice_ClearsMac(rows, ip, latency, ts) ==
    {IF r.ip = ip THEN [r EXCEPT !.status = "online", !.latency = latency, !.last_seen = ts,
                                 !.mac = None]
     ELSE r : r \in rows}

\* an UPDATE that marks the device offline
UpdateDevice_MarksOffline(rows, ip, latency, ts) ==
    {IF r.ip = ip THEN [r EXCEPT !.status = "offline", !.latency = latency, !.last_seen = ts]
     ELSE r : r \in rows}

UpdateDevice_EveryRow(rows, ip, latency, ts) ==
    {[r EXCEPT !.status = "online", !.latency = latency, !.last_seen = ts] : r \in rows}

\* lines 303-307
UpdateDevice(rows, ip, latency, ts) ==
    {IF r.ip = ip THEN [r EXCEPT !.status = "online", !.latency = latency, !.last_seen = ts]
     ELSE r : r \in rows}

\* id INTEGER PRIMARY KEY AUTOINCREMENT (39): one more than the largest id
NextId(rows) == IF rows = {} THEN 1 ELSE 1 + CHOOSE m \in {r.id : r \in rows} :
                                                  \A r \in rows : r.id <= m

DeviceName_AlwaysDevice(ip) == Name("Device", Some(ip.host))

\* lines 310-314
DeviceName(ip) == IF ip.host \in {1, 254} THEN Name("Gateway", Some(ip.host))
                  ELSE Name("Device", Some(ip.host))
DeviceType(ip) == IF ip.host \in {1, 254} THEN "Router" ELSE "Network Device"

NewDevice(rows, ip, latency, ts) ==
    [id |-> NextId(rows), name |-> DeviceName(ip), ip |-> ip, mac |-> None,
     device_type |-> DeviceType(ip), status |-> "online", latency |-> latency,
     last_seen |-> ts]

InsertDevice_NoUniqueIndex(rows, ip, latency, ts) ==
    [ok |-> TRUE, rows |-> rows \cup {NewDevice(rows, ip, latency, ts)}]

\* lines 316-319 under ip_address TEXT UNIQUE NOT NULL (41): the INSERT of an
\* address that a row already has raises sqlite3.IntegrityError
InsertDevice(rows, ip, latency, ts) ==
    IF \E r \in rows : r.ip = ip
    THEN [ok |-> FALSE, rows |-> rows]
    ELSE [ok |-> TRUE, rows |-> rows \cup {NewDevice(rows, ip, latency, ts)}]

\* The monitoring loops that can run at once: stop_monitoring returns after its
\* 5 s join (402) while the old loop still sleeps or sweeps, and the next
\* start_monitoring (391-395) starts a second one.
Loops == {"loop1", "loop2"}

NoWrite == [op |-> "none", ip |-> Loopback, known |-> FALSE]
IdleLoop == [pc |-> "idle", todo |-> <<>>, latency |-> None, found |-> FALSE,
             known |-> FALSE, error |-> "none", last |-> NoWrite]

\* the loop moves on to the next target, or the sweep is over
Advance(lp) ==
    IF Len(lp.todo) > 1
    THEN [lp EXCEPT !.pc = "probe", !.todo = Tail(lp.todo)]
    ELSE [lp EXCEPT !.pc = "idle", !.todo = <<>>]

\* the exception handler of lines 289-290: the sweep is over
Abort(lp, e) == [lp EXCEPT !.pc = "idle", !.todo = <<>>, !.error = e]

\* The host stays on one LAN: an enumeration returns the subnet that an earlier
\* one returned, if any did.
NetsOf(ifs) == IF ifs = None THEN {} ELSE LocalNets(The(ifs))
SameLan(ifs) == lan = {} \/ NetsOf(ifs) = {} \/ NetsOf(ifs) = lan

\* lines 266-282: a sweep starts and lists its targets
discover_network_devices(l) ==
    /\ loops[l].pc = "idle"
    /\ \E ifs \in {i \in IfAddrs : SameLan(i)} :
          /\ lan' = IF NetsOf(ifs) = {} THEN lan ELSE NetsOf(ifs)
          /\ IF ifs = None
             THEN loops' = [loops EXCEPT ![l] = Abort([@ EXCEPT !.last = NoWrite], "Exception")]
             ELSE \E order \in SweepOrders(LocalNets(The(ifs))) :
                     loops' = [loops EXCEPT ![l] =
                         IF order = <<>>
                         THEN [@ EXCEPT !.error = "none", !.last = NoWrite]
                         ELSE [@ EXCEPT !.pc = "probe", !.todo = order, !.error = "none",
                                        !.last = NoWrite]]
    /\ UNCHANGED <<boots, agent, statsResp, pingResp, hostResp, backupStats, devices, discovered, now, schedVars, nodeVars>>

\* lines 283-286 and, for a target that answers, 294-299: the probe and the
\* SELECT of update_or_add_device
probe_target(l) ==
    /\ loops[l].pc = "probe"
    /\ \E res \in PingResults(Head(loops[l].todo)) :
          LET ip == Head(loops[l].todo) IN
          loops' = [loops EXCEPT ![l] =
              IF res.raised THEN Abort([@ EXCEPT !.last = NoWrite], "Exception")
              ELSE IF ~res.success THEN Advance([@ EXCEPT !.last = NoWrite])
              ELSE [@ EXCEPT !.pc = "write", !.latency = res.latency,
                             !.found = (SelectDevice(devices, ip) # {}),
                             !.known = (ip \in discovered), !.last = NoWrite]]
    /\ UNCHANGED <<boots, agent, statsResp, pingResp, hostResp, backupStats, devices, discovered, now, lan, schedVars, nodeVars>>

\* lines 301-322: the UPDATE or the INSERT, and the commit
update_or_add_device(l) ==
    /\ loops[l].pc = "write"
    /\ LET ip == Head(loops[l].todo)
           ins == InsertDevice(devices, ip, loops[l].latency, now)
           done(op) == [loops[l] EXCEPT !.latency = None, !.found = FALSE, !.known = FALSE,
                                        !.last = [op |-> op, ip |-> ip, known |-> loops[l].known]]
       IN  IF loops[l].found
           THEN /\ devices' = UpdateDevice(devices, ip, loops[l].latency, now)
                /\ discovered' = discovered \cup {ip}
                /\ loops' = [loops EXCEPT ![l] = Advance(done("update"))]
           ELSE /\ devices' = ins.rows
                /\ discovered' = IF ins.ok THEN discovered \cup {ip} ELSE discovered
                /\ loops' = [loops EXCEPT ![l] =
                                IF ins.ok THEN Advance(done("insert"))
                                ELSE Abort(done("conflict"), "IntegrityError")]
    /\ UNCHANGED <<boots, agent, statsResp, pingResp, hostResp, backupStats, now, lan, schedVars, nodeVars>>

\* a second passes
tick ==
    /\ now < MaxClock
    /\ now' = now + 1
    /\ UNCHANGED <<boots, agent, statsResp, pingResp, hostResp, backupStats, devices, loops, discovered, lan, schedVars, nodeVars>>

\* the times the application is started in one run of the model
MaxBoots == 2

\* lines 114-118: the columns of the seed rows, in the order of the list
sample_devices == [i \in 1..Cardinality(SampleDevices) |->
                      CHOOSE d \in SampleDevices : d.id = i]

\* an INSERT OR REPLACE: the row that holds the address gives way to the seed
RECURSIVE InsertSamples_Replace(_, _, _)
InsertSamples_Replace(rows, samples, ts) ==
    IF samples = <<>> THEN rows
    ELSE LET d == Head(samples)
             kept == rows \ SelectDevice(rows, d.ip)
         IN  InsertSamples_Replace(
                 kept \cup {[d EXCEPT !.id = NextId(rows), !.last_seen = ts]},
                 Tail(samples), ts)

\* lines 120-124: INSERT OR IGNORE of each seed row.  ip_address is UNIQUE
\* (41), so a seed whose address the table holds is skipped; a new row takes
\* the next id and CURRENT_TIMESTAMP for last_seen.
RECURSIVE InsertSamples(_, _, _)
InsertSamples(rows, samples, ts) ==
    IF samples = <<>> THEN rows
    ELSE LET d == Head(samples) IN
         InsertSamples(IF SelectDevice(rows, d.ip) # {} THEN rows
                       ELSE rows \cup {[d EXCEPT !.id = NextId(rows), !.last_seen = ts]},
                       Tail(samples), ts)

\* lines 110-128
add_sample_data(rows, ts) == InsertSamples(rows, sample_devices, ts)

\* lines 26-29, 31-108 and 406: the application is started on the store that
\* exists; CREATE TABLE IF NOT EXISTS leaves the tables as they are, then the
\* seeds are added.  A loop of an application still running goes on.
init_database ==
    /\ Len(boots) < MaxBoots
    /\ boots' = Append(boots, now)
    /\ devices' = add_sample_data(devices, now)
    /\ UNCHANGED <<agent, statsResp, pingResp, hostResp, backupStats, loops, discovered, now,
                   lan, schedVars, nodeVars>>

\* the application started again while one loop sweeps
NextRestart ==
    \/ discover_network_devices("loop1")
    \/ probe_target("loop1")
    \/ update_or_add_device("loop1")
    \/ tick
    \/ init_database

Next ==
    \/ \E l \in Loops : discover_network_devices(l)
    \/ \E l \in Loops : probe_target(l)
    \/ \E l \in Loops : update_or_add_device(l)
    \/ tick

---------------------------------------------------------------------------
(* The collection scheduler: src/app.py 324-403 *)

\* the number of rows of host_stats, and of network_stats, that the disk holds:
\* an INSERT beyond it fails with sqlite3.OperationalError, as on a full disk
MaxHostRows == 1
MaxSamples == 4

\* the threads that the start_monitoring calls of a run create (393): two, as
\* many as the monitoring loops that the sweeps above are checked with
Threads == {"t1", "t2"}
\* the threads of the application that call start_monitoring and stop_monitoring
Callers == {"c1", "c2"}

\* no sweep has ended yet
NoSweep == [error |-> "none", left |-> <<>>]


\* a thread that start_monitoring has not created yet
\* stats is the snapshot of line 344 until line 345 has used it
NewThread == [pc |-> "new", stats |-> None, told |-> "no", failed |-> FALSE,
              swept |-> NoSweep]
\* last is "noop" when the caller's latest call was a start_monitoring that
\* returned without starting a thread
IdleCaller == [pc |-> "idle", seen |-> FALSE, last |-> "none"]

\* psutil as the cycles of the model find it: it fails, or reports one reading
CyclePsutil ==
    {ps \in PsutilEnvs : /\ ps.cpu = 337 /\ ps.mem = 337 /\ ps.disk = 1000
                         /\ ps.uptime = 12 /\ ps.ifaces = <<Eth0>>}

\* the database as one transaction finds it: usable or not (locked, unwritable)
DbStates == {"ok", "error"}

\* lines 329-334: the row that store_host_stats inserts
HostRow(rows, stats, ts) ==
    [id |-> NextId(rows), timestamp |-> ts, cpu_usage |-> stats.cpu_usage,
     memory_usage |-> stats.memory_usage, disk_usage |-> stats.disk_usage,
     network_interfaces |-> stats.interfaces, uptime |-> stats.uptime_hours]

\* lines 326-337: the INSERT and the commit, or the exception
store_host_stats(rows, stats, ts, db) ==
    IF db = "ok" /\ Cardinality(rows) < MaxHostRows
    THEN [raised |-> FALSE, rows |-> rows \cup {HostRow(rows, stats, ts)}]
    ELSE [raised |-> TRUE, rows |-> rows]

\* line 365: SELECT id FROM devices WHERE status = "online"
OnlineIds_AnyStatus(rows) == {r.id : r \in rows}

OnlineIds(rows) == {r.id : r \in {d \in rows : d.status = "online"}}

\* the ids of a set, in ascending order
RECURSIVE Ascending(_)
Ascending(ids) ==
    IF ids = {} THEN <<>>
    ELSE LET m == CHOOSE i \in ids : \A j \in ids : i <= j
         IN  <<m>> \o Ascending(ids \ {m})

\* lines 368-384: one INSERT for each selected id.  The five values of a sample
\* are drawn by random.uniform and are not part of the row of the model.
SampleRows(samples, ids, ts) ==
    LET order == Ascending(ids)
        first == NextId(samples)
    IN  {[id |-> first + i - 1, device_id |-> order[i], timestamp |-> ts] :
            i \in 1..Len(order)}

\* lines 362-387: all the INSERTs are committed at line 386, or none is
generate_sample_network_stats(samples, rows, ts, db) ==
    LET added == SampleRows(samples, OnlineIds(rows), ts) IN
    IF db = "ok" /\ Cardinality(samples) + Cardinality(added) <= MaxSamples
    THEN [raised |-> FALSE, rows |-> samples \cup added]
    ELSE [raised |-> TRUE, rows |-> samples]

\* how a sweep ended: with the exception that line 290 printed, if any, and the
\* targets from the one being handled onward
SweptTo(rows, wrote, e, todo) == [rows |-> rows, wrote |-> wrote, error |-> e, left |-> todo]

\* a sweep that goes on to its next target after update_or_add_device raised
RECURSIVE SweepRuns_ErrorSkipsTarget(_, _, _, _)
SweepRuns_ErrorSkipsTarget(rows, wrote, todo, ts) ==
    IF todo = <<>> THEN {SweptTo(rows, wrote, "none", <<>>)}
    ELSE LET ip == Head(todo) IN
         UNION { IF res.raised THEN {SweptTo(rows, wrote, "Exception", todo)}
                 ELSE IF ~res.success THEN SweepRuns_ErrorSkipsTarget(rows, wrote, Tail(todo), ts)
                 ELSE UNION {
                      IF db # "ok"
                      THEN {[r EXCEPT !.error = "OperationalError", !.left = todo] :
                               r \in SweepRuns_ErrorSkipsTarget(rows, wrote, Tail(todo), ts)}
                      ELSE IF SelectDevice(rows, ip) # {}
                      THEN SweepRuns_ErrorSkipsTarget(UpdateDevice(rows, ip, res.latency, ts),
                                     wrote \cup {ip}, Tail(todo), ts)
                      ELSE LET ins == InsertDevice(rows, ip, res.latency, ts) IN
                           IF ins.ok
                           THEN SweepRuns_ErrorSkipsTarget(ins.rows, wrote \cup {ip}, Tail(todo), ts)
                           ELSE {SweptTo(rows, wrote, "IntegrityError", todo)}
                      : db \in DbStates }
                 : res \in PingResults(ip) }

\* discover_network_devices (264-290) run from its first line to its last: the
\* stores that the probes of the targets  todo  can leave, with the addresses
\* written.  update_or_add_device (292-322) has no handler of its own, so an
\* exception of sqlite3 in it (the store locked or unwritable) reaches the
\* handler of the sweep.  The sweep ends at the first exception (289-290).
RECURSIVE SweepRuns(_, _, _, _)
SweepRuns(rows, wrote, todo, ts) ==
    IF todo = <<>> THEN {SweptTo(rows, wrote, "none", <<>>)}
    ELSE LET ip == Head(todo) IN
         UNION { IF res.raised THEN {SweptTo(rows, wrote, "Exception", todo)}
                 ELSE IF ~res.success THEN SweepRuns(rows, wrote, Tail(todo), ts)
                 ELSE UNION {
                      IF db # "ok" THEN {SweptTo(rows, wrote, "OperationalError", todo)}
                      ELSE IF SelectDevice(rows, ip) # {}
                      THEN SweepRuns(UpdateDevice(rows, ip, res.latency, ts),
                                     wrote \cup {ip}, Tail(todo), ts)
                      ELSE LET ins == InsertDevice(rows, ip, res.latency, ts) IN
                           IF ins.ok
                           THEN SweepRuns(ins.rows, wrote \cup {ip}, Tail(todo), ts)
                           ELSE {SweptTo(rows, wrote, "IntegrityError", todo)}
                      : db \in DbStates }
                 : res \in PingResults(ip) }

\* the order of the steps of one cycle (344-351)
StepAfter_SweepFirst(pc) ==
    CASE pc = "collect" -> "sweep"
      [] pc = "sweep"   -> "persist"
      [] pc = "persist" -> "samples"
      [] pc = "samples" -> "sleep"

StepAfter(pc) ==
    CASE pc = "collect" -> "persist"
      [] pc = "persist" -> "sweep"
      [] pc = "sweep"   -> "samples"
      [] pc = "samples" -> "sleep"

\* lines 355-356: the handler of the cycle; line 358 follows
CycleFailed_LoopEnds(th) == [th EXCEPT !.pc = "stopped", !.stats = None, !.failed = TRUE]

CycleFailed(th) == [th EXCEPT !.pc = "sleep", !.stats = None, !.failed = TRUE]

\* line 341: the test of the while loop
loop_test(t) ==
    /\ threads[t].pc = "test"
    /\ threads' = [threads EXCEPT ![t] =
          IF monitoring_active
          THEN [@ EXCEPT !.pc = "collect",
                         !.told = IF @ = "yes" THEN "ran" ELSE @]
          ELSE [@ EXCEPT !.pc = "stopped"]]
    /\ UNCHANGED <<boots, agent, statsResp, pingResp, hostResp, backupStats, devices, loops, discovered, now, lan,
                   monitoring_active, monitoring_thread, callers, host_stats,
                   network_stats, nodeVars>>

\* line 344
cycle_collect(t) ==
    /\ threads[t].pc = "collect"
    /\ \E ps \in CyclePsutil :
          LET stats == get_system_stats(ps) IN
          threads' = [threads EXCEPT ![t] =
              IF stats.raised THEN CycleFailed(@)
              ELSE [@ EXCEPT !.pc = StepAfter("collect"), !.stats = Some(stats),
                             !.failed = FALSE]]
    /\ UNCHANGED <<boots, agent, statsResp, pingResp, hostResp, backupStats, devices, loops, discovered, now, lan,
                   monitoring_active, monitoring_thread, callers, host_stats,
                   network_stats, nodeVars>>

\* line 345
cycle_persist(t) ==
    /\ threads[t].pc = "persist"
    /\ \E db \in DbStates :
          LET res == store_host_stats(host_stats, The(threads[t].stats), now, db) IN
          /\ host_stats' = res.rows
          /\ threads' = [threads EXCEPT ![t] =
                IF res.raised THEN CycleFailed(@)
                ELSE [@ EXCEPT !.pc = StepAfter("persist"), !.stats = None]]
    /\ UNCHANGED <<boots, agent, statsResp, pingResp, hostResp, backupStats, devices, loops, discovered, now, lan,
                   monitoring_active, monitoring_thread, callers, network_stats, nodeVars>>

\* line 348: the sweep, which catches its own exceptions
cycle_sweep(t, ifs) ==
    /\ threads[t].pc = "sweep"
    /\ SameLan(ifs)
    /\ lan' = IF NetsOf(ifs) = {} THEN lan ELSE NetsOf(ifs)
    /\ \E order \in SweepOrders(NetsOf(ifs)) :
       \E run \in SweepRuns(devices, discovered, order, now) :
          /\ devices' = run.rows
          /\ discovered' = run.wrote
          /\ threads' = [threads EXCEPT ![t] =
                [@ EXCEPT !.pc = StepAfter("sweep"),
                          !.swept = [error |-> run.error, left |-> run.left]]]
    /\ UNCHANGED <<boots, agent, statsResp, pingResp, hostResp, backupStats, loops, now,
                   monitoring_active, monitoring_thread, callers, host_stats,
                   network_stats, nodeVars>>

\* lines 351-353
cycle_samples(t) ==
    /\ threads[t].pc = "samples"
    /\ \E db \in DbStates :
          LET res == generate_sample_network_stats(network_stats, devices, now, db) IN
          /\ network_stats' = res.rows
          /\ threads' = [threads EXCEPT ![t] =
                IF res.raised THEN CycleFailed(@)
                ELSE [@ EXCEPT !.pc = StepAfter("samples")]]
    /\ UNCHANGED <<boots, agent, statsResp, pingResp, hostResp, backupStats, devices, loops, discovered, now, lan,
                   monitoring_active, monitoring_thread, callers, host_stats, nodeVars>>

\* line 358: time.sleep(MONITORING_INTERVAL) returns
loop_sleep(t) ==
    /\ threads[t].pc = "sleep"
    /\ threads' = [threads EXCEPT ![t] = [@ EXCEPT !.pc = "test"]]
    /\ UNCHANGED <<boots, agent, statsResp, pingResp, hostResp, backupStats, devices, loops, discovered, now, lan,
                   monitoring_active, monitoring_thread, callers, host_stats,
                   network_stats, nodeVars>>

\* one step of monitoring_loop (339-358)
monitoring_loop(t) ==
    \/ loop_test(t)
    \/ cycle_collect(t)
    \/ cycle_persist(t)
    \/ \E ifs \in IfAddrs : cycle_sweep(t, ifs)
    \/ cycle_samples(t)
    \/ loop_sleep(t)

\* the threads that start_monitoring can still create, and the callers that
\* have passed the test of line 391 and are about to create one
FreeThreads == {t \in Threads : threads[t].pc = "new"}
Starting == {c \in Callers : callers[c].pc = "start" /\ ~callers[c].seen}

\* line 391: if not self.monitoring_active
ShouldStart_Always(seen) == TRUE

ShouldStart(seen) == ~seen

\* line 391: a caller enters start_monitoring and reads the flag
start_monitoring(c) ==
    /\ callers[c].pc = "idle"
    /\ monitoring_active \/ Cardinality(Starting) < Cardinality(FreeThreads)
    /\ callers' = [callers EXCEPT ![c] = [@ EXCEPT !.pc = "start", !.last = "none",
                                                   !.seen = monitoring_active]]
    /\ UNCHANGED <<boots, agent, statsResp, pingResp, hostResp, backupStats, devices, loops, discovered, now, lan,
                   monitoring_active, monitoring_thread, threads, host_stats,
                   network_stats, nodeVars>>

\* lines 392-396, or the return of a call that found the flag set
start_thread(c) ==
    /\ callers[c].pc = "start"
    /\ IF ShouldStart(callers[c].seen)
       THEN /\ FreeThreads # {}
            /\ LET t == CHOOSE f \in FreeThreads : TRUE IN
               /\ monitoring_active' = TRUE
               /\ monitoring_thread' = Some(t)
               /\ threads' = [threads EXCEPT ![t] = [@ EXCEPT !.pc = "test"]]
            /\ callers' = [callers EXCEPT ![c] = IdleCaller]
       ELSE /\ callers' = [callers EXCEPT ![c] = [IdleCaller EXCEPT !.last = "noop"]]
            /\ UNCHANGED <<monitoring_active, monitoring_thread, threads>>
    /\ UNCHANGED <<boots, agent, statsResp, pingResp, hostResp, backupStats, devices, loops, discovered, now, lan,
                   host_stats, network_stats, nodeVars>>

\* a loop that is running when the flag is cleared has been told to stop
Alive(th) == th.pc \notin {"new", "stopped"}
Told(th) == IF Alive(th) /\ th.told = "no" THEN [th EXCEPT !.told = "yes"] ELSE th

\* lines 400-402: the flag is cleared and the join begins
stop_monitoring(c) ==
    /\ callers[c].pc = "idle"
    /\ monitoring_active' = FALSE
    /\ threads' = [t \in Threads |-> Told(threads[t])]
    /\ callers' = [callers EXCEPT ![c] =
          IF monitoring_thread # None THEN [IdleCaller EXCEPT !.pc = "join"]
          ELSE IdleCaller]
    /\ UNCHANGED <<boots, agent, statsResp, pingResp, hostResp, backupStats, devices, loops, discovered, now, lan,
                   monitoring_thread, host_stats, network_stats, nodeVars>>

\* lines 402-403: the join returns, because the thread has ended or because
\* the 5 s have passed
stop_return(c) ==
    /\ callers[c].pc = "join"
    /\ callers' = [callers EXCEPT ![c] = IdleCaller]
    /\ UNCHANGED <<boots, agent, statsResp, pingResp, hostResp, backupStats, devices, loops, discovered, now, lan,
                   monitoring_active, monitoring_thread, threads, host_stats,
                   network_stats, nodeVars>>

\* The start and stop calls in any order and interleaving, on a host without
\* a LAN interface: the enumeration of line 268 raises or returns the loopback
\* interface only, so that the sweeps of the cycles find no target.
NoLan == {i \in IfAddrs : NetsOf(i) = {}}

NextSched ==
    \/ \E c \in Callers : start_monitoring(c)
    \/ \E c \in Callers : start_thread(c)
    \/ \E c \in Callers : stop_monitoring(c)
    \/ \E c \in Callers : stop_return(c)
    \/ \E t \in Threads : loop_test(t)
    \/ \E t \in Threads : cycle_collect(t)
    \/ \E t \in Threads : cycle_persist(t)
    \/ \E t \in Threads : \E ifs \in NoLan : cycle_sweep(t, ifs)
    \/ \E t \in Threads : cycle_samples(t)
    \/ \E t \in Threads : loop_sleep(t)

\* One scheduler, started once and never stopped, on a host with a LAN interface.
NextCycle ==
    \/ start_monitoring("c1")
    \/ start_thread("c1")
    \/ \E t \in Threads : loop_test(t)
    \/ \E t \in Threads : cycle_collect(t)
    \/ \E t \in Threads : cycle_persist(t)
    \/ \E t \in Threads : \E ifs \in IfAddrs : cycle_sweep(t, ifs)
    \/ \E t \in Threads : cycle_samples(t)
    \/ \E t \in Threads : loop_sleep(t)

---------------------------------------------------------------------------
(* The node registry: src/app.py 91-102, 418-502 *)

\* the largest id that the AUTOINCREMENT sequence of raspberry_pi_nodes reaches
MaxNodeId == 2

\* the values of a registration request (449-451); "" is a missing or empty one
NodeNames == {"", "pi-a"}
NodeIps == {"", "10.0.0.50", "10.0.0.51"}
NodeLocations == {"", "attic"}
\* the node_id of a heartbeat or a removal: the ids the sequence can reach
NodeIds == 1..MaxNodeId
\* data.get('systemStats', {}) of a heartbeat (488)
HeartbeatStats == {"{}", "{cpu: 12.5}"}

\* The table with its AUTOINCREMENT sequence (93): an id is never used again,
\* also after its row has been deleted.
NoNodes == [rows |-> {}, seq |-> 0]

NodeRow(id, name, ip, location) ==
    [id |-> id, name |-> name, ip_address |-> ip, location |-> location,
     is_online |-> FALSE, last_heartbeat |-> None, system_stats |-> None]

InsertNode_NoUniqueIndex(tbl, name, ip, location) ==
    [ok |-> TRUE, tbl |-> [rows |-> tbl.rows \cup {NodeRow(tbl.seq + 1, name, ip, location)},
                           seq |-> tbl.seq + 1]]

\* lines 460-464 under ip_address TEXT UNIQUE NOT NULL (95)
InsertNode(tbl, name, ip, location) ==
    IF \E r \in tbl.rows : r.ip_address = ip
    THEN [ok |-> FALSE, tbl |-> tbl]
    ELSE [ok |-> TRUE, tbl |-> [rows |-> tbl.rows \cup {NodeRow(tbl.seq + 1, name, ip, location)},
                                seq |-> tbl.seq + 1]]

\* lines 493-497: UPDATE raspberry_pi_nodes ... WHERE id = ?
HeartbeatUpdate(tbl, id, stats, ts) ==
    [tbl EXCEPT !.rows =
        {IF r.id = id THEN [r EXCEPT !.is_online = TRUE, !.last_heartbeat = Some(ts),
                                     !.system_stats = Some(stats)]
         ELSE r : r \in tbl.rows}]

\* line 478: DELETE FROM raspberry_pi_nodes WHERE id = ?
DeleteNode(tbl, id) == [tbl EXCEPT !.rows = {r \in tbl.rows : r.id # id}]

NoNodeResp == [busy |-> FALSE, op |-> "none", name |-> "", ip |-> "", id |-> 0,
               registered |-> FALSE, status |-> 0, success |-> FALSE, text |-> ""]

NodeResponse(op, name, ip, id, registered, status, success, text) ==
    [busy |-> TRUE, op |-> op, name |-> name, ip |-> ip, id |-> id,
     registered |-> registered, status |-> status, success |-> success, text |-> text]

\* lines 447-470: POST /api/raspberry-pi
raspberry_pi_nodes(name, ip, location) ==
    /\ ~nodeResp.busy
    /\ (name # "" /\ ip # "" /\ InsertNode(nodes, name, ip, location).ok) =>
          nodes.seq < MaxNodeId
    /\ LET registered == \E r \in nodes.rows : r.ip_address = ip
           ins == InsertNode(nodes, name, ip, location)
       IN  IF name = "" \/ ip = ""
           THEN /\ nodeResp' = NodeResponse("register", name, ip, 0, registered, 400, FALSE,
                                            "Name and IP address are required")
                /\ nodes' = nodes
           ELSE IF ins.ok
           THEN /\ nodeResp' = NodeResponse("register", name, ip, 0, registered, 200, TRUE,
                                            "Node registered successfully")
                /\ nodes' = ins.tbl
           ELSE /\ nodeResp' = NodeResponse("register", name, ip, 0, registered, 400, FALSE,
                                            "Node with this IP address already exists")
                /\ nodes' = ins.tbl
    /\ UNCHANGED <<boots, agent, statsResp, pingResp, hostResp, backupStats, devices, loops, discovered, now, lan,
                   schedVars>>

\* lines 472-482: DELETE /api/raspberry-pi/<node_id>
remove_raspberry_pi_node(id) ==
    /\ ~nodeResp.busy
    /\ nodeResp' = NodeResponse("remove", "", "", id, \E r \in nodes.rows : r.id = id,
                                200, TRUE, "Node removed successfully")
    /\ nodes' = DeleteNode(nodes, id)
    /\ UNCHANGED <<boots, agent, statsResp, pingResp, hostResp, backupStats, devices, loops, discovered, now, lan,
                   schedVars>>

\* lines 484-502: POST /api/raspberry-pi/<node_id>/heartbeat
raspberry_pi_heartbeat(id, stats) ==
    /\ ~nodeResp.busy
    /\ nodeResp' = NodeResponse("heartbeat", "", "", id, \E r \in nodes.rows : r.id = id,
                                200, TRUE, "Heartbeat received")
    /\ nodes' = HeartbeatUpdate(nodes, id, stats, now)
    /\ UNCHANGED <<boots, agent, statsResp, pingResp, hostResp, backupStats, devices, loops, discovered, now, lan,
                   schedVars>>

\* The agent of a node (raspberry-pi/monitor.py).
\* get_system_metrics (61-91): the flat metrics an agent puts into a heartbeat
AgentMetrics == {"cpuUsage: 0", "cpuUsage: 12.5"}
\* the address an agent reports (get_local_ip, 50-59)
AgentIps == {"10.0.0.50", "10.0.0.51"}
\* the path send_heartbeat posts to, as the segments after /api/raspberry-pi (155)
HeartbeatPath == <<"heartbeat">>

\* The URL map of the server under /api/raspberry-pi (418, 472, 484): the
\* view a method and the path segments after the prefix select.  A path that
\* matches a rule with another method is answered 405, a path that matches
\* no rule 404.
Route(method, rest) ==
    CASE Len(rest) = 0 ->
            IF method \in {"GET", "POST"} THEN "raspberry_pi_nodes" ELSE "405"
      [] Len(rest) = 1 ->
            IF method = "DELETE" THEN "remove_raspberry_pi_node" ELSE "405"
      [] Len(rest) = 2 /\ rest[2] = "heartbeat" ->
            IF method = "POST" THEN "raspberry_pi_heartbeat" ELSE "405"
      [] OTHER -> "404"

\* monitor.py 145-169: the agent posts {ipAddress, cpuUsage, memoryUsage,
\* diskUsage, temperature} to HeartbeatPath and reports success on a 200.  The
\* server answers through its URL map; its heartbeat view takes the node from
\* the path and the metrics from the key systemStats, which the agent's body
\* does not have (488: the default {}).
send_heartbeat(ip, metrics) ==
    /\ ~nodeResp.busy
    /\ LET view == Route("POST", HeartbeatPath)
           registered == \E r \in nodes.rows : r.ip_address = ip
       IN  IF view = "raspberry_pi_heartbeat"
           THEN /\ nodeResp' = NodeResponse("send_heartbeat", "", ip, 0, registered,
                                            200, TRUE, "Heartbeat received")
                /\ nodes' = HeartbeatUpdate(nodes, HeartbeatPath[1], "{}", now)
           ELSE /\ nodeResp' = NodeResponse("send_heartbeat", "", ip, 0, registered,
                                            IF view = "404" THEN 404 ELSE 405, FALSE,
                                            "Failed to send heartbeat")
                /\ nodes' = nodes
    /\ UNCHANGED <<boots, agent, statsResp, pingResp, hostResp, backupStats, devices, loops, discovered, now, lan,
                   schedVars>>

\* the response has been sent
NodeDone ==
    /\ nodeResp.busy
    /\ nodeResp' = NoNodeResp
    /\ UNCHANGED <<boots, agent, statsResp, pingResp, hostResp, backupStats, devices, loops, discovered, now, lan,
                   schedVars, nodes>>

NextNodes ==
    \/ \E name \in NodeNames, ip \in NodeIps, location \in NodeLocations :
          raspberry_pi_nodes(name, ip, location)
    \/ \E id \in NodeIds : remove_raspberry_pi_node(id)
    \/ \E id \in NodeIds, stats \in HeartbeatStats : raspberry_pi_heartbeat(id, stats)
    \/ \E ip \in AgentIps, metrics \in AgentMetrics : send_heartbeat(ip, metrics)
    \/ NodeDone
    \/ tick

---------------------------------------------------------------------------
(* The agent: NetMonitorAgent.run, src/raspberry-pi/monitor.py 211-248 *)

\* the heartbeats of one run of the model
MaxBeats == 10

\* line 220
max_failures == 5

\* what requests.post gives register_node (128-132) and send_heartbeat
\* (154-158): a response with its status, or a RequestException
PostResults == {"200", "201", "400", "405", "RequestException"}

\* lines 134-143
register_node(post) == post \in {"200", "201"}

\* lines 160-169
HeartbeatSent(post) == post = "200"

\* a counter that a success leaves as it is
CountFailures_NoReset(n, success) == IF success THEN n ELSE n + 1

\* lines 227-230
CountFailures(n, success) == IF success THEN 0 ELSE n + 1

\* the agent before run(); registered is what the latest register_node returned
NewAgent == [pc |-> "start", consecutive_failures |-> 0, beats |-> <<>>,
             registered |-> FALSE, registrations |-> 0]

\* lines 216-220: the registration on startup, whose failure is only logged
agent_start(post) ==
    /\ agent.pc = "start"
    /\ agent' = [agent EXCEPT !.pc = "beat", !.consecutive_failures = 0,
                              !.registered = register_node(post),
                              !.registrations = @ + 1]
    /\ UNCHANGED <<boots, pingResp, hostResp, statsResp, backupStats, devices, loops, discovered,
                   now, lan, schedVars, nodeVars>>

\* lines 225-235: the heartbeat, the counter and the test of the counter
agent_heartbeat(post) ==
    /\ agent.pc = "beat"
    /\ Len(agent.beats) < MaxBeats
    /\ LET success == HeartbeatSent(post)
           n == CountFailures(agent.consecutive_failures, success)
       IN  agent' = [agent EXCEPT !.beats = Append(@, success),
                                  !.consecutive_failures = IF n >= max_failures THEN 0 ELSE n,
                                  !.pc = IF n >= max_failures THEN "register" ELSE "sleep"]
    /\ UNCHANGED <<boots, pingResp, hostResp, statsResp, backupStats, devices, loops, discovered,
                   now, lan, schedVars, nodeVars>>

\* line 236: the registration is tried again, its result unused
agent_register(post) ==
    /\ agent.pc = "register"
    /\ agent' = [agent EXCEPT !.pc = "sleep", !.registered = register_node(post),
                              !.registrations = @ + 1]
    /\ UNCHANGED <<boots, pingResp, hostResp, statsResp, backupStats, devices, loops, discovered,
                   now, lan, schedVars, nodeVars>>

\* line 239: time.sleep(self.heartbeat_interval) returns
agent_sleep ==
    /\ agent.pc = "sleep"
    /\ agent' = [agent EXCEPT !.pc = "beat"]
    /\ UNCHANGED <<boots, pingResp, hostResp, statsResp, backupStats, devices, loops, discovered,
                   now, lan, schedVars, nodeVars>>

\* lines 241-243: the interrupt of the operator, the one way out of the loop
agent_interrupt ==
    /\ agent.pc \in {"beat", "register", "sleep"}
    /\ agent' = [agent EXCEPT !.pc = "stopped"]
    /\ UNCHANGED <<boots, pingResp, hostResp, statsResp, backupStats, devices, loops, discovered,
                   now, lan, schedVars, nodeVars>>

NextAgent ==
    \/ \E post \in PostResults : agent_start(post)
    \/ \E post \in PostResults : agent_heartbeat(post)
    \/ \E post \in PostResults : agent_register(post)
    \/ agent_sleep
    \/ agent_interrupt

---------------------------------------------------------------------------
(* The samples endpoint: src/app.py 656-697 *)

\* the largest limit a request asks for
MaxLimit == 3
\* request.args.get('limit', 50) (662)
DefaultLimit == 50
\* the limit of a request: a non-negative number, or the default when absent
Limits == (0..MaxLimit) \cup {DefaultLimit}
\* request.args.get('deviceId') (663): absent or empty, or the id of a device;
\* 7 is the id of no device
DeviceArgs == {None, Some(1), Some(2), Some(7)}

OrderByTimestampDesc_Ascending(rows) ==
    LET n == Cardinality(rows) IN
    {s \in [1..n -> rows] :
        \A i, j \in 1..n : i < j => (s[i] # s[j] /\ s[i].timestamp <= s[j].timestamp)}

\* ORDER BY timestamp DESC (670, 678): the arrangements of the rows in which
\* no row comes before a more recent one.  Rows of one timestamp come in the
\* order the engine picks.
OrderByTimestampDesc(rows) ==
    LET n == Cardinality(rows) IN
    {s \in [1..n -> rows] :
        \A i, j \in 1..n : i < j => (s[i] # s[j] /\ s[i].timestamp >= s[j].timestamp)}

\* LIMIT ? (671, 679) with a non-negative number
LimitRows(s, limit) == SubSeq(s, 1, IF limit < Len(s) THEN limit ELSE Len(s))

\* lines 665-680: the result sets the SELECT can give
SelectStats(samples, device_id, limit) ==
    LET matching == IF device_id # None
                    THEN {r \in samples : r.device_id = The(device_id)}
                    ELSE samples
    IN  {LimitRows(s, limit) : s \in OrderByTimestampDesc(matching)}

NoStats == [busy |-> FALSE, device_id |-> None, limit |-> 0, rows |-> <<>>]

\* lines 656-697: GET /api/network-stats
get_network_stats(device_id, limit) ==
    /\ ~statsResp.busy
    /\ \E rows \in SelectStats(network_stats, device_id, limit) :
          statsResp' = [busy |-> TRUE, device_id |-> device_id, limit |-> limit,
                        rows |-> rows]
    /\ UNCHANGED <<boots, agent, pingResp, hostResp, backupStats, devices, loops, discovered, now, lan,
                   schedVars, nodeVars>>

\* the response has been sent
StatsDone ==
    /\ statsResp.busy
    /\ statsResp' = NoStats
    /\ UNCHANGED <<boots, agent, pingResp, hostResp, backupStats, devices, loops, discovered, now, lan,
                   schedVars, nodeVars>>

\* The tables that the cycles of the scheduler leave: no, one or two runs of
\* generate_sample_network_stats over the seeded devices, the second not
\* before the first.
Clock == 0..MaxClock
SampleTables ==
    LET run(samples, ts) ==
            generate_sample_network_stats(samples, SampleDevices, ts, "ok").rows
    IN  {{}} \cup {run({}, t1) : t1 \in Clock}
             \cup UNION {{run(run({}, t1), t2) : t2 \in t1..MaxClock} : t1 \in Clock}

NextStats ==
    \/ ~statsResp.busy /\ \E device_id \in DeviceArgs, limit \in Limits :
          get_network_stats(device_id, limit)
    \/ StatsDone

---------------------------------------------------------------------------
(* The specifications *)

\* NetworkMonitor.__init__ (26-29) has created and seeded the store; no
\* request is being answered and no sweep is running.
Init ==
    /\ pingResp = NoPing
    /\ hostResp = NoHost
    /\ backupStats = NoBackup
    /\ devices = SampleDevices
    /\ loops = [l \in Loops |-> IdleLoop]
    /\ discovered = {}
    /\ now = 0
    /\ lan = {}
    /\ monitoring_active = FALSE
    /\ monitoring_thread = None
    /\ threads = [t \in Threads |-> NewThread]
    /\ callers = [c \in Callers |-> IdleCaller]
    /\ host_stats = {}
    /\ network_stats = {}
    /\ nodes = NoNodes
    /\ nodeResp = NoNodeResp
    /\ statsResp = NoStats
    /\ agent = NewAgent
    /\ boots = <<0>>

\* the device store under the sweeps of the monitoring loops
Spec == Init /\ [][Next]_vars
\* the prober behind the ping endpoint
SpecProbe == Init /\ [][NextProbe]_vars
\* the host metrics endpoint
SpecCollect == Init /\ [][NextCollect]_vars
\* the stand-alone backup monitor
SpecBackup == Init /\ [][NextBackup]_vars
\* the backup monitor over the outputs of "ip addr show"
SpecIpAddr == Init /\ [][NextIpAddr]_vars
\* the device store under a sweep and a restart of the application
SpecRestart == Init /\ [][NextRestart]_vars
\* the agent on a node
SpecAgent == Init /\ [][NextAgent]_vars
\* the collection scheduler
SpecSched == Init /\ [][NextSched]_vars
\* the collection scheduler when every live thread keeps being scheduled
SpecSchedFair == SpecSched /\ \A t \in Threads : WF_vars(monitoring_loop(t))
\* the cycles of one scheduler
SpecCycle == Init /\ [][NextCycle]_vars
\* the node registry behind its three endpoints
SpecNodes == Init /\ [][NextNodes]_vars

\* the failsafe block of the host metrics endpoint, once it is entered
SpecFailsafe == Init /\ [][NextFailsafe]_vars

\* The samples endpoint is checked over the tables the scheduler can have
\* left, read at a time not before their latest sample.
InitStats ==
    /\ pingResp = NoPing
    /\ hostResp = NoHost
    /\ backupStats = NoBackup
    /\ devices = SampleDevices
    /\ loops = [l \in Loops |-> IdleLoop]
    /\ discovered = {}
    /\ lan = {}
    /\ monitoring_active = FALSE
    /\ monitoring_thread = None
    /\ threads = [t \in Threads |-> NewThread]
    /\ callers = [c \in Callers |-> IdleCaller]
    /\ host_stats = {}
    /\ network_stats \in SampleTables
    /\ now \in {t \in Clock : \A r \in network_stats : r.timestamp <= t}
    /\ nodes = NoNodes
    /\ nodeResp = NoNodeResp
    /\ statsResp = NoStats
    /\ agent = NewAgent
    /\ boots = <<0>>
SpecStats == InitStats /\ [][NextStats]_vars

---------------------------------------------------------------------------
(* The prober *)

\* a ping request with a target has been answered
Answered == pingResp.busy /\ pingResp.target # "" /\ ~pingResp.result.hung
Result == pingResp.result
Env == pingResp.env
Tried(strategy) == \E i \in 1..Len(Result.tried) : Result.tried[i] = strategy
Failed == ~Result.raised /\ ~Result.success

\* C1: ping_host never raises to its caller: whatever the target, the count and
\* the outcome of each strategy, it returns a pair of a boolean and an optional
\* latency.
C1_PingHostNeverRaises ==
    Answered =>
        /\ ~Result.raised
        /\ pingResp.status = 200
        /\ Result.success \in BOOLEAN
        /\ Result.latency \in OptLatency

\* the ping, the TCP step, name resolution and the HTTP GET all raised, and
\* ping_host has returned
C1_Witness ==
    /\ Answered
    /\ Env.ping \in {"raise", "timeout"} /\ Env.tcp = "raise"
    /\ Env.dns = "raise" /\ Env.http \in {"urlerror", "timeout"}
    /\ pingResp.status = 200

\* C2 as stated: a failure (success false, latency none) is returned only
\* after all five strategies have been attempted.
C2_FailureOnlyAfterAllFive ==
    (Answered /\ Failed) =>
        /\ Result.latency = None
        /\ \A st \in {"ping", "tcp", "raw", "dns", "http"} : Tried(st)

\* C2 as amended: a failure is returned either at once, when the external ping
\* exits non-zero and nothing else has been tried, or after the ping raised or
\* timed out and every strategy then reached has failed: TCP did not connect,
\* the raw socket (reached only when connect_ex returned an error code) raised,
\* name resolution raised and the HTTP GET raised.
C2_FailureAfterNonzeroPingOrExhaustion ==
    (Answered /\ Failed) =>
        /\ Result.latency = None
        /\ \/ Env.ping = "nonzero" /\ Result.tried = <<"ping">>
           \/ /\ Env.ping \in {"raise", "timeout"}
              /\ Env.tcp # "connected"
              /\ Tried("raw") <=> Env.tcp \in {"refused", "timeout"}
              /\ Tried("raw") => Env.raw = "raise"
              /\ Env.dns = "raise"
              /\ Env.http # "response"
              /\ Result.tried \in {<<"ping", "tcp", "raw", "dns", "http">>,
                                   <<"ping", "tcp", "dns", "http">>}

\* a failure returned after all five strategies were tried
C2_Witness == Answered /\ Failed /\ Len(Result.tried) = 5

\* the strategies in the order of the chain, and what the environment did to each
Strategies == <<"ping", "tcp", "raw", "dns", "http">>
OutcomeOf(k) ==
    CASE k = 1 -> Env.ping [] k = 2 -> Env.tcp [] k = 3 -> Env.raw
      [] k = 4 -> Env.dns [] OTHER -> Env.http
\* strategy k failed outright: it raised or timed out
Outright(k) == OutcomeOf(k) \in {"raise", "timeout", "urlerror"}
\* strategy k gave a clean negative result
CleanNegative(k) == OutcomeOf(k) \in {"nonzero", "refused"}

\* C3 as stated: strategy k+1 runs only if strategy k ran and failed outright,
\* and a clean negative result of any strategy ends the chain.
C3_NextOnlyAfterOutrightFailure ==
    Answered =>
        \A k \in 1..4 :
            /\ Tried(Strategies[k + 1]) => (Tried(Strategies[k]) /\ Outright(k))
            /\ (Tried(Strategies[k]) /\ CleanNegative(k)) =>
                  \A j \in (k + 1)..5 : ~Tried(Strategies[j])

\* C3 as amended: only the external ping ends the chain on a negative result.
\* The TCP connect runs exactly when the ping raised or timed out.  The raw
\* socket runs exactly when connect_ex returned an error code (refused, or its
\* timeout), not when the TCP step raised.  Name resolution runs exactly when
\* TCP did not connect and the raw socket gave no success; the HTTP GET runs
\* exactly when name resolution raised.
C3_OnlyPingShortCircuits ==
    Answered =>
        /\ Tried("ping")
        /\ Env.ping = "nonzero" => (Result.tried = <<"ping">> /\ Failed)
        /\ Tried("tcp") <=> Env.ping \in {"raise", "timeout"}
        /\ Tried("raw") <=> (Tried("tcp") /\ Env.tcp \in {"refused", "timeout"})
        /\ Tried("dns") <=> /\ Tried("tcp")
                            /\ Env.tcp # "connected"
                            /\ ~(Tried("raw") /\ Env.raw = "sent")
        /\ Tried("http") <=> (Tried("dns") /\ Env.dns = "raise")

\* a refused TCP connect after which the raw socket and name resolution ran
C3_Witness ==
    Answered /\ Env.tcp = "refused" /\ Tried("raw") /\ Tried("dns")

\* C4: when the external ping raises or times out and the target accepts the
\* TCP connection to port 80, ping_host returns success with a latency.
C4_TcpReachableSucceeds ==
    (Answered /\ Env.ping \in {"raise", "timeout"} /\ Env.tcp = "connected") =>
        /\ ~Result.raised
        /\ Result.success
        /\ Result.latency = Some(Env.elapsed)

\* the ping binary is missing and port 80 accepts
C4_Witness ==
    Answered /\ Env.ping = "raise" /\ Env.tcp = "connected" /\ Result.tried = <<"ping", "tcp">>

\* every strategy fails on this target: no ping reply, no TCP connection, no
\* raw socket, no name, no HTTP response
AllFail(env) ==
    /\ env.ping \in {"nonzero", "raise", "timeout"}
    /\ env.tcp \in {"refused", "timeout", "raise"}
    /\ env.raw = "raise"
    /\ env.dns = "raise"
    /\ env.http \in {"urlerror", "timeout"}

\* C5: on a target on which all five strategies fail, ping_host returns
\* exactly success false and latency none.
C5_UnreachableGivesFalseNone ==
    (Answered /\ AllFail(Env)) =>
        /\ ~Result.raised
        /\ ~Result.success
        /\ Result.latency = None

\* an unreachable target whose probe went through the whole chain
C5_Witness == Answered /\ AllFail(Env) /\ Env.ping = "timeout" /\ Tried("http")

---------------------------------------------------------------------------
(* The host metrics *)

\* the tier that is the first to succeed in this environment
FirstTier(env) ==
    IF ~env.ps.fails THEN "primary"
    ELSE IF env.backup = "ok" THEN "backup"
    ELSE IF env.failsafe = "ok" THEN "failsafe"
    ELSE "minimal"

\* C6: get_host_stats never raises and the source tag of its snapshot names
\* the first tier that succeeded.
C6_SourceNamesFirstTier ==
    hostResp.busy =>
        /\ ~hostResp.resp.raised
        /\ hostResp.resp.source = FirstTier(hostResp.env)

InRange(pct) == 0 <= pct /\ pct <= 1000

\* C7: every percentage of every snapshot, of the endpoint and of the backup
\* collector, lies in 0 .. 100.
C7_PercentagesInRange ==
    /\ hostResp.busy =>
          /\ InRange(hostResp.resp.cpuUsage)
          /\ InRange(hostResp.resp.memoryUsage)
          /\ InRange(hostResp.resp.diskUsage)
    /\ backupStats.busy =>
          /\ InRange(backupStats.stats.cpu_usage)
          /\ InRange(backupStats.stats.memory_percent)
          /\ InRange(backupStats.stats.disk_percent)

---------------------------------------------------------------------------
(* The device store *)

RowsOf(rows, ip) == {r \in rows : r.ip = ip}

\* C8: no two rows of devices have the same ip_address, whatever the
\* interleaving of the loops' update_or_add_device calls.
C8_UniqueIpAddress ==
    \A r1 \in devices, r2 \in devices : r1.ip = r2.ip => r1 = r2

\* two loops both saw the address absent; one inserted it and the other's
\* INSERT was rejected
C8_Witness ==
    \E l \in Loops :
        /\ loops[l].last.op = "conflict"
        /\ Cardinality(RowsOf(devices, loops[l].last.ip)) = 1

\* C9: the writer that loses the race for an unknown address does not raise:
\* its conflict becomes an update of the existing row and its sweep goes on.
C9_ConflictBecomesUpdate ==
    \A l \in Loops :
        /\ loops[l].error # "IntegrityError"
        /\ loops[l].last.op # "conflict"

\* C10: when a sweep finds an address that an earlier, completed discovery has
\* written, its update_or_add_device only updates: the number of rows is
\* unchanged, the address has exactly one row, and that row is online with the
\* new latency and time.
C10_RediscoveryOnlyUpdates ==
    [][\A l \in Loops :
          (loops[l].pc = "write" /\ loops[l].known /\ loops'[l] # loops[l]) =>
              LET ip == Head(loops[l].todo) IN
              /\ Cardinality(devices') = Cardinality(devices)
              /\ loops'[l].last.op = "update"
              /\ \E r \in devices' :
                    /\ RowsOf(devices', ip) = {r}
                    /\ r.status = "online"
                    /\ r.latency = loops[l].latency
                    /\ r.last_seen = now
                    /\ \E old \in devices : old.ip = ip /\ old.id = r.id]_vars

\* a device that one sweep created has been updated by a later sweep
C10_Witness ==
    \E l \in Loops :
        /\ loops[l].last.op = "update"
        /\ loops[l].last.known
        /\ loops[l].last.ip.host \in {254, 100}
        /\ Cardinality(RowsOf(devices, loops[l].last.ip)) = 1


\* C11: update_or_add_device for a responsive address that the store does not
\* hold creates exactly one device, online and with the measured latency; it is
\* 'Gateway <suffix>', a Router, for the suffixes 1 and 254 and
\* 'Device <suffix>', a Network Device, for the other suffixes.  On the subnet
\* 10.0.0, where only .1 and .254 answer, the sweeps create at most these two
\* gateways and nothing else.
Created(r, ip, latency) ==
    /\ r.ip = ip
    /\ r.status = "online"
    /\ r.latency = latency
    /\ IF ip.host = 1 \/ ip.host = 254
       THEN r.name = Name("Gateway", Some(ip.host)) /\ r.device_type = "Router"
       ELSE r.name = Name("Device", Some(ip.host)) /\ r.device_type = "Network Device"

OnNet(rows, net) == {r \in rows : r.ip.net = net}

C11_NewDeviceCreated ==
    /\ [](\A r \in OnNet(devices, "10.0.0") :
            /\ r.ip.host \in {1, 254}
            /\ r.name = Name("Gateway", Some(r.ip.host))
            /\ r.device_type = "Router"
            /\ r.status = "online"
            /\ RowsOf(devices, r.ip) = {r})
    /\ [][\A l \in Loops :
            (/\ loops[l].pc = "write"
             /\ RowsOf(devices, Head(loops[l].todo)) = {}
             /\ loops'[l] # loops[l]) =>
                \E r \in devices' :
                    /\ r \notin devices
                    /\ devices' = devices \cup {r}
                    /\ Created(r, Head(loops[l].todo), loops[l].latency)]_vars

\* the sweeps of 10.0.0 have created the two gateways, and the store holds
\* nothing else beside the seeded rows
C11_Witness ==
    /\ Cardinality(OnNet(devices, "10.0.0")) = 2
    /\ devices \ OnNet(devices, "10.0.0") = SampleDevices
    /\ \E l \in Loops : loops[l].last.op = "insert" /\ loops[l].last.ip.host = 254

\* C12: a step of a sweep changes no device but the one whose address answered
\* the probe it is writing for; no device is ever deleted and none is ever
\* set to 'offline'.
C12_UnresponsiveUntouched ==
    /\ [](\A r \in devices : r.status # "offline")
    /\ [][\A r \in devices :
            \/ r \in devices'
            \/ /\ \E l \in Loops : /\ loops[l].pc = "write"
                                   /\ loops'[l] # loops[l]
                                   /\ Head(loops[l].todo) = r.ip
               /\ \E r2 \in devices' : /\ r2.id = r.id /\ r2.ip = r.ip
                                      /\ r2.name = r.name /\ r2.status = "online"]_vars

\* a sweep of 192.168.1 has probed .1, the address of the seeded Main Router,
\* without an answer and has moved on to .254: the row is as it was seeded,
\* while the sweep has updated or created other rows before
C12_Witness ==
    \E l \in Loops :
        /\ loops[l].pc = "probe"
        /\ Head(loops[l].todo) = Addr("192.168.1", 254)
        /\ Addr("192.168.1", 1) \notin discovered
        /\ \E r \in SampleDevices : r.ip = Addr("192.168.1", 1) /\ r \in devices
        /\ Addr("192.168.1", 100) \in discovered

---------------------------------------------------------------------------
(* The collection scheduler *)

InCycle(th) == th.pc \in {"collect", "persist", "sweep", "samples"}

\* C13: an exception in a cycle does not end monitoring_loop.  A loop ends only
\* at its while test, and only when the flag is clear; and if from some point
\* on the flag stays set, cycles start again and again.
C13_LoopSurvivesFailures ==
    /\ [][\A t \in Threads :
            (threads'[t].pc = "stopped" /\ threads[t].pc # "stopped") =>
                (threads[t].pc = "test" /\ ~monitoring_active)]_vars
    /\ (<>[]monitoring_active) => []<>(\E t \in Threads : threads[t].pc = "collect")

\* a loop whose cycle failed has slept and started the next cycle
C13_Witness ==
    \E t \in Threads : threads[t].pc = "collect" /\ threads[t].failed

\* C14: a start_monitoring call that finds the scheduler active returns without
\* creating a thread and without changing the flag, the thread reference, any
\* loop or any table.
C14_StartIdempotent ==
    [][\A c \in Callers :
          (callers[c].pc = "start" /\ callers[c].seen /\ callers'[c] # callers[c]) =>
              /\ callers'[c].pc = "idle"
              /\ UNCHANGED <<monitoring_active, monitoring_thread, threads, devices,
                             host_stats, network_stats>>]_vars

\* a start_monitoring call has returned as a no-op while the scheduler runs
C14_Witness ==
    \E c \in Callers :
        /\ callers[c].last = "noop"
        /\ monitoring_active
        /\ \E t \in Threads : InCycle(threads[t])

\* C15: a loop that was running when stop_monitoring cleared the flag starts no
\* further cycle, whatever is called afterwards.
C15_StoppedLoopStartsNoCycle ==
    \A t \in Threads : threads[t].told # "ran"

\* C16: at most one monitoring_loop is executing cycles, not counting a loop
\* that is finishing the cycle it was in when the flag was cleared.
C16_OneLoopRuns ==
    Cardinality({t \in Threads : InCycle(threads[t]) /\ threads[t].told # "yes"}) <= 1

\* C17: the steps of a cycle happen in the order collect, persist, sweep,
\* samples: a loop enters the sweep only from the step that persisted its
\* snapshot, and generates samples only after its sweep has returned; the
\* tables are written by the step they belong to and by no other.
C17_CycleOrder ==
    [][/\ \A t \in Threads :
            threads'[t].pc # threads[t].pc =>
               /\ threads'[t].pc = "collect" => threads[t].pc = "test"
               /\ threads'[t].pc = "persist" => threads[t].pc = "collect"
               /\ threads'[t].pc = "sweep" =>
                     /\ threads[t].pc = "persist"
                     /\ \E row \in host_stats' \ host_stats :
                           row.cpu_usage = The(threads[t].stats).cpu_usage
               /\ threads'[t].pc = "samples" => threads[t].pc = "sweep"
               /\ threads'[t].pc = "sleep" => threads[t].pc = "samples" \/ threads'[t].failed
       /\ host_stats' # host_stats => \E t \in Threads :
             threads[t].pc = "persist" /\ threads'[t].pc # "persist"
       /\ devices' # devices => \E t \in Threads :
             threads[t].pc = "sweep" /\ threads'[t].pc # "sweep"
       /\ network_stats' # network_stats => \E t \in Threads :
             threads[t].pc = "samples" /\ threads'[t].pc # "samples"]_vars

\* a cycle has gone through its four steps: a snapshot is stored, the sweep
\* has created a device and samples are stored
C17_Witness ==
    \E t \in Threads :
        /\ threads[t].pc = "sleep" /\ ~threads[t].failed
        /\ host_stats # {}
        /\ devices # SampleDevices
        /\ network_stats # {}

---------------------------------------------------------------------------
(* The node registry *)

\* C19: a registration whose ipAddress a node already has is rejected with the
\* duplicate-IP error and changes no row; no two nodes ever share an address.
C19_DuplicateRegistrationRejected ==
    /\ [](\A r1 \in nodes.rows, r2 \in nodes.rows :
             r1.ip_address = r2.ip_address => r1 = r2)
    /\ [][(/\ ~nodeResp.busy
           /\ nodeResp'.busy
           /\ nodeResp'.op = "register"
           /\ nodeResp'.name # ""
           /\ \E r \in nodes.rows : r.ip_address = nodeResp'.ip) =>
              /\ nodes' = nodes
              /\ ~nodeResp'.success
              /\ nodeResp'.status = 400
              /\ nodeResp'.text = "Node with this IP address already exists"]_vars

\* the second registration of an address has been rejected and its one row is
\* still there
C19_Witness ==
    /\ nodeResp.busy /\ nodeResp.op = "register" /\ nodeResp.registered
    /\ nodeResp.name # ""
    /\ nodeResp.status = 400
    /\ Cardinality({r \in nodes.rows : r.ip_address = nodeResp.ip}) = 1

\* C20: a heartbeat for a node that is not registered is answered with success
\* and is stored: afterwards a row of the store carries it.
C20_UnregisteredHeartbeatStored ==
    (nodeResp.busy /\ nodeResp.op = "heartbeat" /\ ~nodeResp.registered) =>
        /\ nodeResp.success
        /\ \E r \in nodes.rows : r.id = nodeResp.id /\ r.last_heartbeat # None

\* C21: a heartbeat that the agent's send_heartbeat sends for a registered
\* node makes the server mark the node with that address online, stamp its
\* last heartbeat and record the metrics.
C21_AgentHeartbeatMarksNodeOnline ==
    (nodeResp.busy /\ nodeResp.op = "send_heartbeat" /\ nodeResp.registered) =>
        /\ nodeResp.success
        /\ \E r \in nodes.rows :
              /\ r.ip_address = nodeResp.ip
              /\ r.is_online
              /\ r.last_heartbeat # None
              /\ r.system_stats # None

\* C22: get_network_stats with a deviceId and a non-negative limit answers
\* at most limit samples, each a stored sample of that device, none twice,
\* ordered by timestamp descending; with no deviceId it answers at most limit
\* samples of any device in the same order.
C22_StatsFilteredDescendingLimited ==
    statsResp.busy =>
        LET rows == statsResp.rows IN
        /\ Len(rows) <= statsResp.limit
        /\ \A i \in 1..Len(rows) :
              /\ rows[i] \in network_stats
              /\ statsResp.device_id # None => rows[i].device_id = The(statsResp.device_id)
        /\ \A i, j \in 1..Len(rows) :
              i < j => (rows[i] # rows[j] /\ rows[i].timestamp >= rows[j].timestamp)

\* device 1 has an older and a newer sample, and a request for one sample of
\* device 1 has been answered with the newer one
C22_Witness ==
    /\ statsResp.busy /\ statsResp.device_id = Some(1) /\ statsResp.limit = 1
    /\ Len(statsResp.rows) = 1
    /\ \E r \in network_stats :
          r.device_id = 1 /\ r.timestamp < statsResp.rows[1].timestamp

---------------------------------------------------------------------------
(* The prober, continued *)

\* C23: the ping endpoint has no persistence side effect: answering a request
\* leaves the tables devices, network_stats, host_stats and raspberry_pi_nodes
\* as they were; and a request with a missing or empty target is rejected with
\* an error without the prober being invoked.
C23_PingToolStoresNothing ==
    /\ [](pingResp.busy =>
            IF pingResp.target = ""
            THEN pingResp.status = 400 /\ Result = NoProbe
            ELSE pingResp.status # 400 /\ Tried("ping"))
    /\ [][pingResp' # pingResp =>
            UNCHANGED <<devices, network_stats, host_stats, nodes>>]_vars

\* the address of a stored device has been probed with success, and its row is
\* the seeded one
C23_Witness ==
    /\ Answered /\ pingResp.target = "192.168.1.1" /\ Result.success
    /\ Result.latency # None
    /\ pingResp.status = 200
    /\ devices = SampleDevices

\* C24: the HTTP fallback counts any HTTP response as reachable, whatever its
\* status code: a 4xx or 5xx response gives success with the elapsed time.
C24_AnyHttpStatusIsReachable ==
    (Answered /\ Tried("http") /\ Env.http \in {"response", "httperror"}) =>
        /\ Result.success
        /\ Result.latency = Some(Env.elapsed)

\* C25: every external-process and network call of ping_host is time-bounded,
\* so ping_host returns: a strategy whose call hangs is ended by its own
\* timeout and the rest of the chain still runs.
C25_EveryStrategyTimeBounded ==
    (pingResp.busy /\ pingResp.target # "") =>
        /\ ~Result.hung
        /\ (Tried("ping") /\ Env.ping = "timeout") => Tried("tcp")
        /\ (Tried("tcp") /\ Env.tcp = "timeout") => Tried("raw")
        /\ (Tried("dns") /\ Env.dns = "hang") => Tried("http")

\* the latency field of the first line that has a "time=": none when the line
\* has a number that does not parse, none when no line has the field
RECURSIVE FirstTimeField(_)
FirstTimeField(lines) ==
    IF lines = <<>> THEN None
    ELSE IF Head(lines).kind \in {"time", "bad"} THEN Head(lines).ms
    ELSE FirstTimeField(Tail(lines))

\* C26: a ping that exits 0 gives success whatever its output; the latency is
\* the number parsed from the first line containing "time=", and when that
\* parse fails the latency is none, not a value taken from elsewhere.
C26_LatencyFromFirstTimeField ==
    (Answered /\ Env.ping = "exit0") =>
        /\ Result.success
        /\ Result.latency = FirstTimeField(Env.out)

\* C27: the raw-socket probe is attempted whenever the TCP probe fails outright,
\* by raising or by timing out, and before name resolution; every error of the
\* raw probe is swallowed and the chain goes on with name resolution.
C27_RawProbeAfterTcpFailure ==
    (Answered /\ Tried("tcp") /\ Env.tcp \in {"raise", "timeout"}) =>
        /\ Tried("raw")
        /\ Env.raw = "raise" => Tried("dns")

\* C28: whenever name resolution is reached and succeeds the result is success
\* with the elapsed time, whatever the TCP and raw probes did before; the HTTP
\* GET is attempted only when name resolution raised.
C28_ResolvedNameIsReachable ==
    Answered =>
        /\ (Tried("dns") /\ Env.dns = "resolved") =>
              /\ Result.success
              /\ Result.latency = Some(Env.elapsed)
              /\ ~Tried("http")
        /\ Tried("http") => (Tried("dns") /\ Env.dns = "raise")

\* the TCP connect was refused, the raw socket raised, and the name resolved
C28_Witness ==
    /\ Answered /\ Env.tcp = "refused" /\ Env.raw = "raise" /\ Env.dns = "resolved"
    /\ Result.tried = <<"ping", "tcp", "raw", "dns">>
    /\ Result.success

---------------------------------------------------------------------------
(* The host metrics, continued *)

\* C29: in get_host_stats a tier is attempted exactly when the whole previous
\* tier raised: the backup tier answers whenever the primary collection fails,
\* the failsafe tier whenever the backup fails too, the minimal tier only when
\* the failsafe throws as well.
C29_TierRunsWhenPreviousFails ==
    hostResp.busy =>
        LET env == hostResp.env
            source == hostResp.resp.source
        IN  /\ source = "primary" <=> ~env.ps.fails
            /\ source = "backup" <=> (env.ps.fails /\ env.backup = "ok")
            /\ source = "failsafe" <=>
                  (env.ps.fails /\ env.backup = "raise" /\ env.failsafe = "ok")
            /\ source = "minimal" <=>
                  (env.ps.fails /\ env.backup = "raise" /\ env.failsafe = "raise")

---------------------------------------------------------------------------
(* The subnet sweep, continued *)

\* the last octets a sweep is to probe on each subnet
ProbedSuffixes == {1, 254, 100, 101, 102}
\* the addresses a sweep over these three-octet prefixes is to probe
SweepTargets(nets) == {Addr(n, h) : n \in nets, h \in ProbedSuffixes}
\* no address comes twice
NoRepeat(seq) == \A i, j \in 1..Len(seq) : i # j => seq[i] # seq[j]
Members(seq) == {seq[i] : i \in 1..Len(seq)}

\* interface listings with up to three addresses, on two subnets and loopback
AddressLists ==
    SeqsUpTo({Loopback, Addr("192.168.1", 10), Addr("192.168.1", 11), Addr("10.0.0", 5)}, 3)
\* the distinct prefixes of the addresses that are not 127.*
PrefixesOf(addrs) == {a.net : a \in {b \in Members(addrs) : b.net # "127.0.0"}}

\* whatever the interfaces, the list of targets of a sweep holds each of the
\* five addresses of each prefix once and nothing else
TargetListExact ==
    \A addrs \in AddressLists :
        \A order \in SweepOrders(LocalNets(addrs)) :
            /\ NoRepeat(order)
            /\ Members(order) = SweepTargets(PrefixesOf(addrs))

\* C30: one sweep probes, for each distinct three-octet prefix of the local
\* IPv4 addresses that are not 127.*, exactly the suffixes 1, 254, 100, 101
\* and 102: each target once in a sweep, also when interfaces share a prefix,
\* and no address outside that set.
C30_SweepProbesFiveSuffixesPerPrefix ==
    /\ [](/\ TargetListExact
          /\ \A l \in Loops :
                loops[l].pc # "idle" =>
                    /\ loops[l].todo # <<>>
                    /\ NoRepeat(loops[l].todo)
                    /\ Members(loops[l].todo) \subseteq SweepTargets(lan)
                    /\ "127.0.0" \notin lan)
    /\ [][\A l \in Loops :
            /\ (loops[l].pc = "idle" /\ loops'[l].pc = "probe") =>
                  /\ Members(loops'[l].todo) = SweepTargets(lan')
                  /\ Len(loops'[l].todo) = 5 * Cardinality(lan')
            /\ (loops[l].pc # "idle" /\ loops'[l] # loops[l]) =>
                  \/ loops'[l].pc = "write" /\ loops'[l].todo = loops[l].todo
                  \/ loops'[l].pc = "probe" /\ loops'[l].todo = Tail(loops[l].todo)
                  \/ loops'[l].pc = "idle" /\ loops'[l].todo = <<>>]_vars

\* a sweep has come to the last of the five targets of its subnet while the
\* other loop is at the start of its own sweep of the same subnet
C30_Witness ==
    /\ lan = {"192.168.1"}
    /\ loops["loop1"].pc = "probe" /\ loops["loop1"].todo = <<Addr("192.168.1", 102)>>
    /\ loops["loop2"].pc = "probe" /\ Len(loops["loop2"].todo) = 5

---------------------------------------------------------------------------
(* The device store, continued *)

\* C31: update_or_add_device for an address its SELECT finds in the store sets that
\* device's status to 'online' and refreshes its latency and last_seen, and
\* changes nothing else: every other field of that device, its id included,
\* and every field of every other device are as before; no row is added or
\* removed.
C31_UpdateTouchesThreeFields ==
    [][\A l \in Loops :
          (/\ loops[l].pc = "write"
           /\ loops[l].found
           /\ loops'[l] # loops[l]) =>
              LET ip == Head(loops[l].todo) IN
              /\ loops'[l].last.op = "update"
              /\ \A r \in devices : r.ip # ip => r \in devices'
              /\ \E old \in devices :
                    /\ RowsOf(devices, ip) = {old}
                    /\ devices' = (devices \ {old}) \cup
                          {[old EXCEPT !.status = "online", !.latency = loops[l].latency,
                                       !.last_seen = now]}]_vars

\* the WiFi access point is not among the addresses a sweep probes and keeps
\* its seeded status, while the sweep has just updated the Main Router at a
\* later time than it was seeded
C31_Witness ==
    \E l \in Loops :
        /\ loops[l].last.op = "update"
        /\ loops[l].last.ip = Addr("192.168.1", 1)
        /\ \E r \in devices :
              /\ r.ip = Addr("192.168.1", 1) /\ r.id = 1
              /\ r.name = Name("Main Router", None) /\ r.mac = Some("00:11:22:33:44:55")
              /\ r.device_type = "Router" /\ r.status = "online" /\ r.last_seen = 1
        /\ \E r \in devices : r.id = 3 /\ r.status = "warning" /\ r.last_seen = 0
        /\ \E r \in devices : r.id = 2 /\ r \in SampleDevices

---------------------------------------------------------------------------
(* The host metrics: the failsafe block *)

\* /proc/meminfo gives a usage: the system is Linux, the file is read and
\* parsed, and MemTotal is positive
MemReadable(os) ==
    /\ os.platform = "Linux" /\ os.meminfo # None
    /\ The(os.meminfo).total # None /\ The(The(os.meminfo).total) > 0
\* statvfs gives a usage: the call returns and the file system has blocks
DiskReadable(os) == os.statvfs # None /\ The(os.statvfs).blocks > 0

\* C32: the failsafe tier answers cpuUsage 25.0, uptime 1.0 and exactly one
\* synthetic interface, with memory and disk usage the parsed value when the
\* accounting source is readable and 50.0 otherwise; a failure while reading
\* memory or disk does not make it fall through to 'minimal'.
C32_FailsafeConstantsAndDefaults ==
    (hostResp.busy /\ hostResp.env.failsafe = "ok") =>
        LET os == hostResp.env.os
            resp == hostResp.resp
        IN  /\ resp.source = "failsafe"
            /\ resp.cpuUsage = 250
            /\ resp.uptime = 1
            /\ Len(resp.networkInterfaces) = 1
            /\ resp.networkInterfaces[1].ip = "127.0.0.1"
            /\ resp.memoryUsage =
                  IF MemReadable(os)
                  THEN LET m == The(os.meminfo)
                           total == The(m.total)
                           available == IF m.available # None THEN The(m.available)
                                        ELSE IF m.free # None THEN The(m.free) ELSE 0
                       IN  RoundHalfEven((total - available) * 1000, total)
                  ELSE 500
            /\ resp.diskUsage =
                  IF DiskReadable(os)
                  THEN LET v == The(os.statvfs)
                       IN  RoundHalfEven((v.blocks - v.bavail) * 1000, v.blocks)
                  ELSE 500

\* /proc/meminfo could not be read while statvfs could: the answer is the
\* failsafe one, with the default memory usage and a parsed disk usage
C32_Witness ==
    /\ hostResp.busy /\ hostResp.env.failsafe = "ok"
    /\ hostResp.env.os.platform = "Linux"
    /\ hostResp.env.os.meminfo = None
    /\ hostResp.env.os.statvfs = Some([blocks |-> 3, bavail |-> 1])
    /\ hostResp.resp.source = "failsafe"
    /\ hostResp.resp.memoryUsage = 500 /\ hostResp.resp.diskUsage = 667

---------------------------------------------------------------------------
(* The backup collector: the interfaces *)

\* what the claim expects of an output: a {name, ip} entry for each interface
\* other than lo whose header is followed, before the next header, by an inet line
ExpectedInterfaces(lines) ==
    {[name |-> RStripColon(lines[i].words[2]), ip |-> BeforeSlash(lines[j].words[2])] :
        <<i, j>> \in
            {p \in (1..Len(lines)) \X (1..Len(lines)) :
                /\ p[1] < p[2]
                /\ ~lines[p[1]].indent /\ lines[p[1]].words[2] # "lo:"
                /\ lines[p[2]].indent /\ lines[p[2]].words[1] = "inet"
                /\ \A k \in (p[1] + 1)..(p[2] - 1) : lines[k].indent}}

\* C33: on Linux, when "ip addr show" runs and its output is well-formed, the
\* interface reader of the backup collector returns one {name, ip} entry for
\* each non-loopback interface that has an inet line, and none for loopback.
C33_OneEntryPerInetInterface ==
    (backupStats.busy /\ backupStats.os.platform = "Linux"
                      /\ backupStats.os.ipaddr = "ok") =>
        LET got == backupStats.stats.network_interfaces
            want == ExpectedInterfaces(backupStats.os.ipout)
        IN  /\ Len(got) = Cardinality(want)
            /\ {[name |-> got[i].name, ip |-> got[i].ip] : i \in 1..Len(got)} = want

---------------------------------------------------------------------------
(* The sweep inside the cycle *)

\* C34: discover_network_devices never raises: whatever happens in it, the cycle
\* goes on to the sample generation and is not marked failed.  When
\* update_or_add_device raised for a target, the sweep ended there: the rows of
\* that target and of every target after it are as they were before the sweep,
\* and every address the sweep wrote before it has its row, online and seen now.
C34_SweepEndsAtFirstException ==
    [][\A t \in Threads :
          (threads[t].pc = "sweep" /\ threads'[t] # threads[t]) =>
              LET end == threads'[t].swept IN
              /\ threads'[t].pc = "samples"
              /\ threads'[t].failed = threads[t].failed
              /\ end.error # "none" =>
                    /\ end.left # <<>>
                    /\ \A ip \in Members(end.left) :
                          /\ RowsOf(devices', ip) = RowsOf(devices, ip)
                          /\ ip \notin discovered' \ discovered
              /\ \A ip \in discovered' \ discovered :
                    \E r \in RowsOf(devices', ip) :
                       r.status = "online" /\ r.last_seen = now]_vars

\* a sweep wrote a device, then update_or_add_device raised for a later target
\* while another was still to probe, and the cycle is at the sample generation
C34_Witness ==
    \E t \in Threads :
       /\ threads[t].pc = "samples"
       /\ ~threads[t].failed
       /\ threads[t].swept.error = "OperationalError"
       /\ Len(threads[t].swept.left) >= 2
       /\ \E ip \in discovered : ip.net = threads[t].swept.left[1].net

---------------------------------------------------------------------------
(* The host row of the cycle *)

\* the snapshot that get_system_stats returns when the introspection failed
ZeroSnapshot(st) ==
    /\ st.cpu_usage = 0 /\ st.memory_usage = 0 /\ st.disk_usage = 0
    /\ st.uptime_hours = 0 /\ st.interfaces = <<>>

\* the snapshots of a working introspection
PrimarySnapshot(st) ==
    \E ps \in CyclePsutil :
       /\ st.cpu_usage = ps.cpu /\ st.memory_usage = ps.mem /\ st.disk_usage = ps.disk
       /\ st.uptime_hours = ps.uptime /\ st.interfaces = ps.ifaces

\* C35: get_system_stats never raises: the collection step of a cycle always
\* hands a snapshot to the persisting step, the all-zero one with no interface
\* when the introspection failed.  The persisting step then appends exactly one
\* host_stats row holding that snapshot, or fails and appends none; no other
\* step changes host_stats, and neither step runs the backup collector or the
\* tiers of the host statistics endpoint.
C35_OneHostRowPerCycle ==
    [][/\ \A t \in Threads :
            (threads[t].pc = "collect" /\ threads'[t].pc # "collect") =>
                /\ threads'[t].pc = "persist"
                /\ ~threads'[t].failed
                /\ \E st \in threads'[t].stats :
                      /\ ~st.raised
                      /\ ZeroSnapshot(st) \/ PrimarySnapshot(st)
                /\ UNCHANGED <<host_stats, backupStats, hostResp>>
       /\ \A t \in Threads :
            (threads[t].pc = "persist" /\ threads'[t].pc # "persist") =>
                LET st == The(threads[t].stats) IN
                /\ UNCHANGED <<backupStats, hostResp>>
                /\ \/ /\ threads'[t].pc = "sweep"
                      /\ \E r \in host_stats' \ host_stats :
                            /\ host_stats' = host_stats \cup {r}
                            /\ r.timestamp = now
                            /\ r.cpu_usage = st.cpu_usage
                            /\ r.memory_usage = st.memory_usage
                            /\ r.disk_usage = st.disk_usage
                            /\ r.uptime = st.uptime_hours
                            /\ r.network_interfaces = st.interfaces
                   \/ /\ threads'[t].pc = "sleep" /\ threads'[t].failed
                      /\ host_stats' = host_stats
       /\ host_stats' # host_stats =>
             \E t \in Threads : threads[t].pc = "persist" /\ threads'[t].pc = "sweep"]_vars

\* a cycle whose introspection failed has stored its all-zero row and gone on
C35_Witness ==
    \E t \in Threads :
       /\ threads[t].pc = "sweep"
       /\ \E r \in host_stats :
             /\ r.cpu_usage = 0 /\ r.memory_usage = 0 /\ r.disk_usage = 0
             /\ r.uptime = 0 /\ r.network_interfaces = <<>>

---------------------------------------------------------------------------
(* The agent's loop *)

\* the heartbeats that failed since the last one that succeeded
RECURSIVE TrailingFailures(_)
TrailingFailures(beats) ==
    IF beats = <<>> \/ beats[Len(beats)] THEN 0
    ELSE 1 + TrailingFailures(SubSeq(beats, 1, Len(beats) - 1))

\* C36: in the run loop of the agent, a heartbeat that succeeds sets the counter
\* of consecutive failures to 0; the counter is between 0 and 4 whenever the
\* loop sleeps; register_node is called again exactly after a heartbeat that
\* completes a run of five failed heartbeats (the fifth, the tenth, ... since
\* the last success); and no result of a heartbeat or of a registration ends
\* the loop.
C36_ReRegisterAfterFiveFailures ==
    /\ [](agent.pc = "sleep" => agent.consecutive_failures \in 0..4)
    /\ [][/\ (agent.pc = "beat" /\ agent'.beats # agent.beats) =>
                LET run == TrailingFailures(agent'.beats) IN
                /\ agent'.pc \in {"register", "sleep"}
                /\ run = 0 => agent'.consecutive_failures = 0
                /\ agent'.pc = "register" <=> (run > 0 /\ run % 5 = 0)
                /\ agent'.consecutive_failures = run % 5
          /\ agent'.registrations # agent.registrations =>
                /\ agent.pc \in {"start", "register"}
                /\ agent'.pc = IF agent.pc = "start" THEN "beat" ELSE "sleep"
                /\ agent'.registrations = agent.registrations + 1]_vars

\* four heartbeats failed, one succeeded, five more failed and the agent is
\* about to register again
C36_Witness ==
    /\ agent.pc = "register"
    /\ agent.beats = <<FALSE, FALSE, FALSE, FALSE, TRUE, FALSE, FALSE, FALSE, FALSE, FALSE>>
    /\ agent.registrations = 1

---------------------------------------------------------------------------
(* The backup collector: the record of a cycle *)

\* the source of each metric cannot be read or parsed on this host
CpuUnreadable(os) ==
    IF os.platform = "Linux"
    THEN os.stat = None \/ \E c \in os.stat : Len(c) < 4 \/ SumSeq(c) = 0
    ELSE os.top.kind # "cpu"
MemoryUnreadable(os) == IF os.platform = "Linux" THEN os.meminfo = None ELSE os.free = None
DiskUnreadable(os) == IF os.platform = "Linux" THEN os.statvfs = None ELSE os.df = None
UptimeUnreadable(os) == os.uptime = None
InterfacesUnreadable(os) == os.platform = "Linux" /\ os.ipaddr = "raise" /\ os.ifconfig = None

---------------------------------------------------------------------------
(* The seeds on an existing store *)

\* C38: running init_database and add_sample_data again on the store that
\* exists changes no row of devices: no device is added for an address the
\* table holds, and the status, latency and last_seen that a sweep wrote to a
\* seeded device stay as the sweep left them.  On the empty store the same
\* code gives the three seeded devices.
C38_SeedingIsIdempotent ==
    /\ [](add_sample_data({}, 0) = SampleDevices)
    /\ [][boots' # boots =>
            /\ devices' = devices
            /\ \A d \in devices' : Cardinality(RowsOf(devices', d.ip)) = 1]_vars

\* the application was started again at tick 1 on a store in which a sweep at
\* tick 0 had given the seeded router a new latency
C38_Witness ==
    /\ Len(boots) = 2 /\ boots[2] = 1
    /\ \E d \in devices :
          /\ d.ip = Addr("192.168.1", 1) /\ d.id = 1
          /\ d.last_seen = 0 /\ d.latency # Some(152)
          /\ d.ip \in discovered

---------------------------------------------------------------------------
(* The status of a device *)

\* the values of the status column that the application knows
Statuses == {"online", "offline", "warning", "unknown"}

\* C39: in every reachable state the status of each device is one of online,
\* offline, warning and unknown; and whenever the seeding or a sweep writes a
\* row of devices, a new one or one it updates, the status it leaves in that
\* row is online, while every row it does not write keeps its status.
C39_StatusOnlyBecomesOnline ==
    /\ [](\A d \in devices : d.status \in Statuses)
    /\ [][/\ \A d \in devices' \ devices : d.status = "online"
          /\ \A d \in devices : \E e \in devices' :
                e.id = d.id /\ (e.status # d.status => e.status = "online")]_vars

\* a sweep at tick 1 updated the seeded router and added a device, both online,
\* and the access point still has the status it was seeded with
C39_Witness ==
    /\ \E d \in devices : /\ d.ip = Addr("192.168.1", 1) /\ d.last_seen = 1
                          /\ d.status = "online"
    /\ \E d \in devices : /\ d.ip = Addr("192.168.1", 254) /\ d.status = "online"
    /\ \E d \in devices : d.ip = Addr("192.168.1", 3) /\ d.status = "warning"

=============================================================================
